---- MODULE Spec2Model ----
(***************************************************************************)
(* Model of the medical research assistant's retrieval-augmented answer    *)
(* loop: VectorStore.search and its filter builder (vector_store.py), the   *)
(* MedicalLiteratureSearchTool and ToolManager (search_tools.py), the       *)
(* AIGenerator tool-calling loop (ai_generator.py), RAGSystem.query and     *)
(* the ingestion calls (rag_system.py), and the chunker and parser of       *)
(* DocumentProcessor (document_processor.py).                               *)
(*                                                                         *)
(* Conventions.  A Python Optional value is None (the empty tuple) or      *)
(* Some(x) (the one-element tuple).  A Python str is a TLA+ string and an   *)
(* f-string is a concatenation with \o.  A dict literal is a record.       *)
(***************************************************************************)
EXTENDS Integers, Sequences, FiniteSets, TLC

VARIABLES
    pc,            \* where the query in flight stands
    api_params,    \* parameters of the model call being prepared or last sent
    response,      \* the first model response (Some) or None
    tool_results,  \* tool_result blocks collected by _handle_tool_execution
    attempt,       \* loop index of the final-call retry loop
    result,        \* outcome of generate_response: return value or raised error
    log,           \* per-query history of model calls and tool executions
    last_sources,  \* MedicalLiteratureSearchTool.last_sources
    store_call,    \* this query's last VectorStore.search call: its arguments, the
                   \* request sent to the backend and the backend's answer; or None
    store_result,  \* SearchResults of this query's last VectorStore.search call, or None
    tool_call,     \* arguments of this query's last execute_tool call, or None
    tool_output,   \* outcome of this query's last execute_tool call, or None
    answered,      \* what RAGSystem.query handed back for this query, or None
    chunker,       \* locals of the chunk_text call in flight, or None
    parsed,        \* file and result of the last process_medical_paper call, or None
    processor,     \* DocumentProcessor: chunk_size, chunk_overlap, _topic_mapping
    paper_catalog, \* records of the paper_catalog collection
    paper_content, \* records of the paper_content collection
    ingest,        \* locals of the add_papers_from_folder run in flight, or None
    queries        \* the queries running concurrently on one system, or None

vars == <<pc, api_params, response, tool_results, attempt, result, log,
          last_sources, store_call, store_result, tool_call, tool_output,
          answered, chunker, parsed, processor, paper_catalog,
          paper_content, ingest, queries>>

orchestratorVars == <<pc, api_params, response, tool_results, attempt, result,
                      log, answered>>

toolVars == <<last_sources, store_call, store_result, tool_call, tool_output>>

queryVars == <<pc, api_params, response, tool_results, attempt, result, log,
               last_sources, store_call, store_result, tool_call, tool_output,
               answered>>

pipelineVars == <<chunker, parsed, processor, paper_catalog, paper_content,
                  ingest>>

(***************************************************************************)
(* Bounds of the model.                                                    *)
(***************************************************************************)
MaxBlocks == 2     \* content blocks in one model response
MaxResults == 2    \* evidence items one search returns

(***************************************************************************)
(* Python values.                                                          *)
(***************************************************************************)
None == <<>>

Some(x) == <<x>>

\* Truthiness of an Optional[str]: None and "" are falsy.
TruthyStr(o) == o /= None /\ o[1] /= ""

\* DocumentProcessor.__init__ on the configurations tried: the topic mapping
\* is not loaded yet.
ProcessorConfigs ==
    [chunk_size : {8}, chunk_overlap : {0, 3}, topic_mapping : {None}]

\* The processor of a system that is answering queries.
DefaultProcessor == [chunk_size |-> 8, chunk_overlap |-> 3, topic_mapping |-> None]

\* No document is being chunked, parsed or ingested and the store's
\* collections are as created by VectorStore.__init__.
PipelineIdle ==
    /\ chunker = None
    /\ parsed = None
    /\ processor = DefaultProcessor
    /\ paper_catalog = {}
    /\ paper_content = {}
    /\ ingest = None

\* Sequences over S of length 0..n.
SeqUpTo(S, n) == UNION {[1..k -> S] : k \in 0..n}

\* Sequences over S of length 0..n without a repeated element.
DistinctSeqUpTo(S, n) ==
    {s \in SeqUpTo(S, n) : \A i, j \in 1..Len(s) : i /= j => s[i] /= s[j]}

(***************************************************************************)
(* The evidence held by the similarity backend: chunk documents with the   *)
(* metadata VectorStore.add_paper_content writes (None values removed, so  *)
(* a field may be absent), and the catalog identifiers get_paper_url reads.*)
(***************************************************************************)
StoredChunks ==
    { [doc |-> "Paper: P1 | Section: Abstract\na1",
       meta |-> [paper_title |-> Some("P1"), section_title |-> Some("Abstract"),
                 year |-> Some(2021), journal |-> Some("BMJ")]],
      [doc |-> "Paper: P1 | Section: Methods\nm1",
       meta |-> [paper_title |-> Some("P1"), section_title |-> Some("Methods"),
                 year |-> Some(2021), journal |-> Some("BMJ")]],
      [doc |-> "Paper: P2 | Section: Results\nr2",
       meta |-> [paper_title |-> Some("P2"), section_title |-> Some("Results"),
                 year |-> None, journal |-> None]] }

\* paper_catalog metadata: title -> identifiers (pmcid, doi), None when absent.
Catalog ==
    [P1 |-> [pmcid |-> Some("PMC1"), doi |-> Some("10.1/p1")],
     P2 |-> [pmcid |-> None, doi |-> Some("10.1/p2")]]

\* Messages of the exceptions the similarity backend raises.
BackendErrors == {"", "index unavailable"}

\* What paper_content.query does: it raises, or returns a Chroma result whose
\* documents/metadatas hold one inner list per query text (or nothing at all).
ChromaResults ==
    {[documents |-> None, metadatas |-> None]} \cup
    {[documents |-> Some([i \in 1..Len(h) |-> h[i].doc]),
      metadatas |-> Some([i \in 1..Len(h) |-> h[i].meta])] :
        h \in DistinctSeqUpTo(StoredChunks, MaxResults)}

BackendOutcomes ==
    {[kind |-> "raise", msg |-> m] : m \in BackendErrors} \cup
    {[kind |-> "ok", results |-> r] : r \in ChromaResults}

(***************************************************************************)
(* vector_store.py                                                         *)
(***************************************************************************)

\* SearchResults.from_chroma: the first inner list, or [] when there is none.
from_chroma(chroma_results) ==
    [documents |-> IF chroma_results.documents /= None
                   THEN chroma_results.documents[1] ELSE <<>>,
     metadata |-> IF chroma_results.metadatas /= None
                  THEN chroma_results.metadatas[1] ELSE <<>>,
     error |-> None]

\* SearchResults.empty
empty(error_msg) == [documents |-> <<>>, metadata |-> <<>>, error |-> Some(error_msg)]

\* SearchResults.is_empty
is_empty(results) == Len(results.documents) = 0

build_filter_always_and(topic, paper_type, year_range) ==
    LET f1 == IF TruthyStr(topic) THEN <<[topic |-> topic[1]]>> ELSE <<>>
        f2 == IF TruthyStr(paper_type) THEN <<[paper_type |-> paper_type[1]]>> ELSE <<>>
        f3 == IF year_range /= None
              THEN <<[year |-> [gte |-> year_range[1][1], lte |-> year_range[1][2]]]>>
              ELSE <<>>
        filters == f1 \o f2 \o f3
    IN  IF Len(filters) = 0 THEN None ELSE Some([and |-> filters])

\* VectorStore._build_filter.  The filters list is appended to in the order
\* topic, paper_type, year; a year_range tuple is truthy whenever it is given.
build_filter(topic, paper_type, year_range) ==
    LET f1 == IF TruthyStr(topic) THEN <<[topic |-> topic[1]]>> ELSE <<>>
        f2 == IF TruthyStr(paper_type) THEN <<[paper_type |-> paper_type[1]]>> ELSE <<>>
        f3 == IF year_range /= None
              THEN <<[year |-> [gte |-> year_range[1][1], lte |-> year_range[1][2]]]>>
              ELSE <<>>
        filters == f1 \o f2 \o f3
    IN  IF Len(filters) = 0 THEN None
        ELSE IF Len(filters) = 1 THEN Some(filters[1])
        ELSE Some([and |-> filters])

\* The request VectorStore.search sends to paper_content.query.
backend_query(call) ==
    [query_texts |-> <<call.query>>,
     n_results |-> MaxResults,
     where |-> build_filter(call.topic, call.paper_type, call.year_range)]

search_reraise(call, backend) ==
    IF backend.kind = "raise"
    THEN [kind |-> "raise", error |-> backend.msg]
    ELSE [kind |-> "return", value |-> from_chroma(backend.results)]

\* VectorStore.search: the filter is built, the backend is queried inside the
\* try block, and whatever it raises becomes an empty result with an error.
\* The outcome is a return value or, were an exception to escape, a raise.
search(call, backend) ==
    IF backend.kind = "raise"
    THEN [kind |-> "return", value |-> empty("Search error: " \o backend.msg)]
    ELSE [kind |-> "return", value |-> from_chroma(backend.results)]

\* VectorStore.get_paper_url: the PMC link when the catalog has a pmcid, else
\* the DOI link, else None.
get_paper_url(paper_title) ==
    IF paper_title \notin DOMAIN Catalog THEN None
    ELSE IF TruthyStr(Catalog[paper_title].pmcid)
         THEN Some("https://www.ncbi.nlm.nih.gov/pmc/articles/"
                   \o Catalog[paper_title].pmcid[1] \o "/")
    ELSE IF TruthyStr(Catalog[paper_title].doi)
         THEN Some("https://doi.org/" \o Catalog[paper_title].doi[1])
    ELSE None

(***************************************************************************)
(* search_tools.py                                                         *)
(***************************************************************************)

\* The one tool RAGSystem.__init__ registers with the ToolManager.
RegisteredTools == {"search_medical_literature"}

\* dict.get(key, default) on a metadata field that may be absent.
MetaGet(field, default) == IF field /= None THEN field[1] ELSE default

\* "sep".join(parts)
RECURSIVE Join(_, _)
Join(parts, sep) ==
    IF Len(parts) = 0 THEN ""
    ELSE IF Len(parts) = 1 THEN parts[1]
    ELSE parts[1] \o sep \o Join(Tail(parts), sep)

\* One pass of the loop of _format_results over zip(documents, metadata),
\* from position k on.  acc holds formatted, and the sources dict as its keys
\* (in insertion order) and its values.
RECURSIVE format_loop(_, _, _)
format_loop(results, k, acc) ==
    IF k > Len(results.documents) \/ k > Len(results.metadata) THEN acc
    ELSE LET doc == results.documents[k]
             meta == results.metadata[k]
             paper_title == MetaGet(meta.paper_title, "Unknown Paper")
             journal == MetaGet(meta.journal, "Unknown Journal")
             year == IF meta.year /= None THEN ToString(meta.year[1])
                     ELSE "Unknown Year"
             section == MetaGet(meta.section_title, "")
             header == "[" \o paper_title
                       \o (IF section /= "" THEN " | " \o section ELSE "") \o "]"
             seen == \E i \in 1..Len(acc.keys) : acc.keys[i] = paper_title
             source == [text |-> paper_title \o " - " \o year \o " - " \o journal,
                        url |-> get_paper_url(paper_title)]
         IN  format_loop(results, k + 1,
                 [formatted |-> Append(acc.formatted, header \o "\n" \o doc),
                  keys |-> IF seen THEN acc.keys ELSE Append(acc.keys, paper_title),
                  sources |-> IF seen THEN acc.sources
                              ELSE Append(acc.sources, source)])

format_results_every_item(results) ==
    LET acc == format_loop(results, 1,
                           [formatted |-> <<>>, keys |-> <<>>, sources |-> <<>>])
        n == Len(results.metadata)
    IN  [text |-> Join(acc.formatted, "\n\n"),
         last_sources |->
            [i \in 1..n |->
                LET meta == results.metadata[i]
                    paper_title == MetaGet(meta.paper_title, "Unknown Paper")
                IN  [text |-> paper_title \o " - "
                              \o (IF meta.year /= None THEN ToString(meta.year[1])
                                  ELSE "Unknown Year")
                              \o " - " \o MetaGet(meta.journal, "Unknown Journal"),
                     url |-> get_paper_url(paper_title)]]]

\* MedicalLiteratureSearchTool._format_results: the text for the model and
\* the new value of last_sources.
format_results(results) ==
    LET acc == format_loop(results, 1,
                           [formatted |-> <<>>, keys |-> <<>>, sources |-> <<>>])
    IN  [text |-> Join(acc.formatted, "\n\n"), last_sources |-> acc.sources]

year_range_of_truthy(min_year, max_year) ==
    IF (min_year /= None /\ min_year[1] /= 0) \/ (max_year /= None /\ max_year[1] /= 0)
    THEN Some(<<IF min_year /= None /\ min_year[1] /= 0 THEN min_year[1] ELSE 1900,
                IF max_year /= None /\ max_year[1] /= 0 THEN max_year[1] ELSE 2100>>)
    ELSE None

\* MedicalLiteratureSearchTool.execute, lines 76-81: the year_range tuple.
year_range_of(min_year, max_year) ==
    IF min_year /= None \/ max_year /= None
    THEN Some(<<IF min_year /= None THEN min_year[1] ELSE 1900,
                IF max_year /= None THEN max_year[1] ELSE 2100>>)
    ELSE None

\* The arguments MedicalLiteratureSearchTool.execute passes to store.search.
store_call_of(kwargs) ==
    [query |-> kwargs.query[1],
     topic |-> kwargs.topic,
     paper_type |-> kwargs.paper_type,
     year_range |-> year_range_of(kwargs.min_year, kwargs.max_year)]

no_results_message_not_none(call) ==
    "No relevant medical literature found"
    \o (IF call.topic /= None THEN " in topic '" \o call.topic[1] \o "'" ELSE "")
    \o (IF call.paper_type /= None
        THEN " of type '" \o call.paper_type[1] \o "'" ELSE "")
    \o (IF call.year_range /= None
        THEN " from years " \o ToString(call.year_range[1][1]) \o "-"
             \o ToString(call.year_range[1][2])
        ELSE "")
    \o "."

\* MedicalLiteratureSearchTool.execute, lines 95-104: the no-results message.
no_results_message(call) ==
    "No relevant medical literature found"
    \o (IF TruthyStr(call.topic) THEN " in topic '" \o call.topic[1] \o "'" ELSE "")
    \o (IF TruthyStr(call.paper_type)
        THEN " of type '" \o call.paper_type[1] \o "'" ELSE "")
    \o (IF call.year_range /= None
        THEN " from years " \o ToString(call.year_range[1][1]) \o "-"
             \o ToString(call.year_range[1][2])
        ELSE "")
    \o "."

execute_format_on_error(kwargs, backend, sources) ==
    LET call == store_call_of(kwargs)
        exchange == [args |-> call, request |-> backend_query(call),
                     backend |-> backend]
        found == search(call, backend)
        results == found.value
    IN  IF found.kind = "raise"
        THEN [outcome |-> found, last_sources |-> sources,
              store_call |-> Some(exchange), store_result |-> None]
        ELSE IF is_empty(results) /\ ~TruthyStr(results.error)
        THEN [outcome |-> [kind |-> "return", value |-> no_results_message(call)],
              last_sources |-> sources,
              store_call |-> Some(exchange), store_result |-> Some(results)]
        ELSE [outcome |-> [kind |-> "return",
                           value |-> format_results(results).text],
              last_sources |-> format_results(results).last_sources,
              store_call |-> Some(exchange), store_result |-> Some(results)]

\* MedicalLiteratureSearchTool.execute with its keyword arguments bound:
\* what it returns (or raises) and what it leaves in last_sources; sources is
\* last_sources before the call.
execute(kwargs, backend, sources) ==
    LET call == store_call_of(kwargs)
        exchange == [args |-> call, request |-> backend_query(call),
                     backend |-> backend]
        found == search(call, backend)
        results == found.value
    IN  IF found.kind = "raise"
        THEN [outcome |-> found, last_sources |-> sources,
              store_call |-> Some(exchange), store_result |-> None]
        ELSE IF TruthyStr(results.error)
        THEN [outcome |-> [kind |-> "return", value |-> results.error[1]],
              last_sources |-> sources,
              store_call |-> Some(exchange), store_result |-> Some(results)]
        ELSE IF is_empty(results)
        THEN [outcome |-> [kind |-> "return", value |-> no_results_message(call)],
              last_sources |-> sources,
              store_call |-> Some(exchange), store_result |-> Some(results)]
        ELSE [outcome |-> [kind |-> "return",
                           value |-> format_results(results).text],
              last_sources |-> format_results(results).last_sources,
              store_call |-> Some(exchange), store_result |-> Some(results)]

\* ToolManager.execute_tool: an unregistered name yields a message; otherwise
\* the tool's execute is called with **kwargs, which raises TypeError when the
\* required argument query is missing.
execute_tool(tool_name, kwargs, backend, sources) ==
    IF tool_name \notin RegisteredTools
    THEN [outcome |-> [kind |-> "return",
                       value |-> "Tool '" \o tool_name \o "' not found"],
          last_sources |-> sources, store_call |-> None, store_result |-> None]
    ELSE IF kwargs.query = None
    THEN [outcome |-> [kind |-> "raise", error |-> "TypeError"],
          last_sources |-> sources, store_call |-> None, store_result |-> None]
    ELSE execute(kwargs, backend, sources)

\* ToolManager.get_last_sources: the first non-empty last_sources of a tool.
get_last_sources(sources) == IF Len(sources) > 0 THEN sources ELSE <<>>

(***************************************************************************)
(* The generative model endpoint: what client.messages.create can answer.  *)
(* A text block has a text attribute; a tool_use block has none, and       *)
(* carries an invocation id, a tool name and an input object.              *)
(***************************************************************************)
TextBlock(t) == [type |-> "text", text |-> t]

ToolUseBlock(id, name, input) ==
    [type |-> "tool_use", id |-> id, name |-> name, input |-> input]

\* hasattr(block, 'text')
HasText(block) == "text" \in DOMAIN block

Kwargs(query, topic, paper_type, min_year, max_year) ==
    [query |-> query, topic |-> topic, paper_type |-> paper_type,
     min_year |-> min_year, max_year |-> max_year]

\* Tool requests the model makes in a conversation: a filtered search, a
\* search whose input lacks the required query, and a request for a tool that
\* is not registered.
ToolRequests ==
    { [name |-> "search_medical_literature",
       input |-> Kwargs(Some("q"), Some("Cardiology"), None, Some(2022), None)],
      [name |-> "search_medical_literature",
       input |-> Kwargs(None, None, None, None, None)],
      [name |-> "lookup_drug",
       input |-> Kwargs(Some("q"), None, None, None, None)] }

BlockKinds == {[type |-> "text"]} \cup {[type |-> "tool_use", req |-> r] : r \in ToolRequests}

\* The content blocks of a response; invocation ids are unique per block.
ContentOf(kinds) ==
    [i \in 1..Len(kinds) |->
        IF kinds[i].type = "text" THEN TextBlock("answer " \o ToString(i))
        ELSE ToolUseBlock("toolu_" \o ToString(i), kinds[i].req.name, kinds[i].req.input)]

Contents == {ContentOf(k) : k \in SeqUpTo(BlockKinds, MaxBlocks)}

StopReasons == {"end_turn", "tool_use"}

ToolUses(content) == {i \in 1..Len(content) : content[i].type = "tool_use"}

\* Responses to the first call: stop reason tool_use comes with a tool_use block.
FirstResponses ==
    {r \in [stop_reason : StopReasons, content : Contents] :
        r.stop_reason = "tool_use" => ToolUses(r.content) /= {}}

\* Responses to the final call: a text answer, no content at all, a first block
\* without text (a further tool request), and text followed by a tool request.
FinalResponses ==
    { [stop_reason |-> "end_turn", content |-> <<TextBlock("final answer")>>],
      [stop_reason |-> "end_turn", content |-> <<>>],
      [stop_reason |-> "tool_use",
       content |-> <<ToolUseBlock("toolu_9", "search_medical_literature",
                                  Kwargs(Some("q"), None, None, None, None))>>],
      [stop_reason |-> "tool_use",
       content |-> <<TextBlock("partial answer"),
                     ToolUseBlock("toolu_9", "search_medical_literature",
                                  Kwargs(Some("q"), None, None, None, None))>>] }

CreateOutcomes(responses) ==
    {[kind |-> "raise", error |-> "APIError"]} \cup
    {[kind |-> "return", value |-> r] : r \in responses}

\* conversation_history as RAGSystem.query passes it: None without a session.
Histories == {None, Some("User: earlier\nAssistant: earlier")}

(***************************************************************************)
(* ai_generator.py                                                         *)
(***************************************************************************)
SYSTEM_PROMPT == "You are an AI assistant specialized in medical research literature"

max_retries == 1

FALLBACK == "I apologize, but I encountered an issue generating a response. Please try again."

\* RAGSystem.query always hands generate_response its ToolManager, and an
\* object without __bool__ or __len__ is truthy.
tool_manager == TRUE

\* generate_response, lines 69-86: the parameters of the first call.
first_params(query, conversation_history, tools) ==
    [messages |-> <<[role |-> "user", content |-> query]>>,
     system |-> IF TruthyStr(conversation_history)
                THEN SYSTEM_PROMPT \o "\n\nPrevious conversation:\n"
                     \o conversation_history[1]
                ELSE SYSTEM_PROMPT,
     tools |-> IF Len(tools) > 0 THEN Some(tools) ELSE None]

final_params_no_assistant(base_params, initial_response, results) ==
    [messages |-> base_params.messages
                  \o (IF Len(results) > 0
                      THEN <<[role |-> "user", content |-> results]>> ELSE <<>>),
     system |-> base_params.system,
     tools |-> None]

final_params_keep_tools(base_params, initial_response, results) ==
    [messages |-> base_params.messages
                  \o <<[role |-> "assistant", content |-> initial_response.content]>>
                  \o (IF Len(results) > 0
                      THEN <<[role |-> "user", content |-> results]>> ELSE <<>>),
     system |-> base_params.system,
     tools |-> base_params.tools]

final_params_last_result(base_params, initial_response, results) ==
    [messages |-> base_params.messages
                  \o <<[role |-> "assistant", content |-> initial_response.content]>>
                  \o (IF Len(results) > 0
                      THEN <<[role |-> "user", content |-> <<results[Len(results)]>>]>>
                      ELSE <<>>),
     system |-> base_params.system,
     tools |-> None]

\* _handle_tool_execution, lines 110-140: the parameters of the final call,
\* built from base_params without its tools.
final_params(base_params, initial_response, results) ==
    [messages |-> base_params.messages
                  \o <<[role |-> "assistant", content |-> initial_response.content]>>
                  \o (IF Len(results) > 0
                      THEN <<[role |-> "user", content |-> results]>> ELSE <<>>),
     system |-> base_params.system,
     tools |-> None]

\* The content block the loop of lines 118-129 executes next: the tool_use
\* block that follows the ones whose results are collected.
RECURSIVE nth_tool_use(_, _, _)
nth_tool_use(content, from, n) ==
    IF from > Len(content) THEN 0
    ELSE IF content[from].type = "tool_use"
         THEN (IF n = 1 THEN from ELSE nth_tool_use(content, from + 1, n - 1))
    ELSE nth_tool_use(content, from + 1, n)

direct_answer_last(resp) ==
    IF Len(resp.content) = 0 THEN [kind |-> "raise", error |-> "IndexError"]
    ELSE IF ~HasText(resp.content[Len(resp.content)])
    THEN [kind |-> "raise", error |-> "AttributeError"]
    ELSE [kind |-> "return", value |-> resp.content[Len(resp.content)].text]

direct_answer_fallback(resp) ==
    IF Len(resp.content) = 0 \/ ~HasText(resp.content[1])
    THEN [kind |-> "return", value |-> FALLBACK]
    ELSE [kind |-> "return", value |-> resp.content[1].text]

\* generate_response, line 96: response.content[0].text
direct_answer(resp) ==
    IF Len(resp.content) = 0 THEN [kind |-> "raise", error |-> "IndexError"]
    ELSE IF ~HasText(resp.content[1])
    THEN [kind |-> "raise", error |-> "AttributeError"]
    ELSE [kind |-> "return", value |-> resp.content[1].text]

final_step_raise_on_malformed(outcome, n) ==
    IF outcome.kind = "raise" \/ Len(outcome.value.content) = 0
       \/ ~HasText(outcome.value.content[1])
    THEN (IF n < max_retries THEN [next |-> "retry"]
          ELSE [next |-> "raise", error |-> "APIError"])
    ELSE [next |-> "return", value |-> outcome.value.content[1].text]

final_step_budget_per_kind(outcome, n) ==
    IF outcome.kind = "raise"
    THEN (IF n < max_retries + 1 THEN [next |-> "retry"]
          ELSE [next |-> "raise", error |-> outcome.error])
    ELSE IF Len(outcome.value.content) = 0 \/ ~HasText(outcome.value.content[1])
    THEN (IF n < max_retries THEN [next |-> "retry"]
          ELSE [next |-> "return", value |-> FALLBACK])
    ELSE [next |-> "return", value |-> outcome.value.content[1].text]

final_step_no_retry(outcome, n) ==
    IF outcome.kind = "raise"
    THEN [next |-> "raise", error |-> outcome.error]
    ELSE IF Len(outcome.value.content) = 0 \/ ~HasText(outcome.value.content[1])
    THEN [next |-> "return", value |-> FALLBACK]
    ELSE [next |-> "return", value |-> outcome.value.content[1].text]

\* _handle_tool_execution, lines 144-175: one iteration of the retry loop, on
\* what create did in iteration n (attempt): retry, return a text, or re-raise.
final_step(outcome, n) ==
    IF outcome.kind = "raise"
    THEN (IF n < max_retries THEN [next |-> "retry"]
          ELSE [next |-> "raise", error |-> outcome.error])
    ELSE IF Len(outcome.value.content) = 0
    THEN (IF n < max_retries THEN [next |-> "retry"]
          ELSE [next |-> "return", value |-> FALLBACK])
    ELSE IF ~HasText(outcome.value.content[1])
    THEN (IF n < max_retries THEN [next |-> "retry"]
          ELSE [next |-> "return", value |-> FALLBACK])
    ELSE [next |-> "return", value |-> outcome.value.content[1].text]

(***************************************************************************)
(* State machine.  A query runs through RAGSystem.query and                *)
(* AIGenerator.generate_response; the steps are cut at the outbound calls  *)
(* (the model endpoint and the similarity backend), whose answers are the  *)
(* inputs of the model.                                                    *)
(***************************************************************************)
Init ==
    /\ pc = "idle"
    /\ api_params = None
    /\ response = None
    /\ tool_results = <<>>
    /\ attempt = 0
    /\ result = None
    /\ log = <<>>
    /\ last_sources = <<>>
    /\ store_call = None
    /\ store_result = None
    /\ tool_call = None
    /\ tool_output = None
    /\ answered = None
    /\ PipelineIdle
    /\ queries = None

\* RAGSystem.query, lines 132-143, and generate_response up to the first call.
\* Any number of queries run one after another on the one system.
StartQuery ==
    /\ pc = "idle"
    /\ \E history \in Histories :
          api_params' = Some(first_params("question", history,
                                          <<"search_medical_literature">>))
    /\ response' = None
    /\ tool_results' = <<>>
    /\ attempt' = 0
    /\ result' = None
    /\ log' = <<>>
    /\ pc' = "call1"
    /\ store_call' = None
    /\ store_result' = None
    /\ tool_call' = None
    /\ tool_output' = None
    /\ answered' = None
    /\ UNCHANGED last_sources
    /\ UNCHANGED <<pipelineVars, queries>>

\* generate_response, lines 89-96, and, when tools are to be executed,
\* _handle_tool_execution up to its first tool call (lines 110-118).
ModelCall1 ==
    /\ pc = "call1"
    /\ \E outcome \in CreateOutcomes(FirstResponses) :
          /\ log' = Append(log, [ev |-> "create", call |-> 1,
                                 params |-> api_params[1], outcome |-> outcome])
          /\ IF outcome.kind = "raise"
             THEN /\ result' = Some(outcome)
                  /\ pc' = "raised"
                  /\ UNCHANGED <<response, api_params>>
             ELSE /\ response' = Some(outcome.value)
                  /\ IF outcome.value.stop_reason = "tool_use" /\ tool_manager
                     THEN IF ToolUses(outcome.value.content) = {}
                          THEN /\ api_params' = Some(final_params(api_params[1],
                                                         outcome.value, <<>>))
                               /\ pc' = "call2"
                               /\ result' = None
                          ELSE /\ pc' = "tools"
                               /\ UNCHANGED <<api_params, result>>
                     ELSE /\ result' = Some(direct_answer(outcome.value))
                          /\ pc' = IF direct_answer(outcome.value).kind = "return"
                                   THEN "returned" ELSE "raised"
                          /\ UNCHANGED api_params
    /\ UNCHANGED <<tool_results, attempt, toolVars, answered>>
    /\ UNCHANGED <<pipelineVars, queries>>

\* The effect of ToolManager.execute_tool(name, **kwargs) on the tool, with
\* the answer of the similarity backend.
Invoke(name, kwargs, backend) ==
    LET r == execute_tool(name, kwargs, backend, last_sources)
    IN  /\ tool_call' = Some([name |-> name, kwargs |-> kwargs])
        /\ tool_output' = Some(r.outcome)
        /\ last_sources' = r.last_sources
        /\ store_call' = r.store_call
        /\ store_result' = r.store_result

\* _handle_tool_execution, lines 118-140: the next tool_use block is executed
\* and its result collected; after the last one the final call is prepared.
ExecuteTool ==
    /\ pc = "tools"
    /\ LET content == response[1].content
           k == nth_tool_use(content, 1, Len(tool_results) + 1)
           block == content[k]
           last == nth_tool_use(content, 1, Len(tool_results) + 2) = 0
       IN  \E backend \in BackendOutcomes :
            LET r == execute_tool(block.name, block.input, backend, last_sources)
                collected == Append(tool_results,
                                 [type |-> "tool_result", tool_use_id |-> block.id,
                                  content |-> r.outcome.value])
            IN  /\ Invoke(block.name, block.input, backend)
                /\ log' = Append(log, [ev |-> "execute_tool", id |-> block.id,
                                       name |-> block.name, outcome |-> r.outcome])
                /\ IF r.outcome.kind = "raise"
                   THEN /\ result' = Some(r.outcome)
                        /\ pc' = "raised"
                        /\ UNCHANGED <<tool_results, api_params>>
                   ELSE /\ tool_results' = collected
                        /\ result' = None
                        /\ IF last
                           THEN /\ api_params' = Some(final_params(api_params[1],
                                                          response[1], collected))
                                /\ pc' = "call2"
                           ELSE /\ pc' = "tools"
                                /\ UNCHANGED api_params
    /\ UNCHANGED <<response, attempt, answered>>
    /\ UNCHANGED <<pipelineVars, queries>>

\* _handle_tool_execution, lines 144-175: one iteration of the retry loop.
ModelCall2 ==
    /\ pc = "call2"
    /\ \E outcome \in CreateOutcomes(FinalResponses) :
          LET step == final_step(outcome, attempt)
          IN  /\ log' = Append(log, [ev |-> "create", call |-> 2,
                                     params |-> api_params[1], outcome |-> outcome])
              /\ IF step.next = "retry"
                 THEN /\ attempt' = attempt + 1
                      /\ pc' = "call2"
                      /\ result' = None
                 ELSE /\ attempt' = attempt
                      /\ pc' = IF step.next = "return" THEN "returned" ELSE "raised"
                      /\ result' = Some(IF step.next = "return"
                                        THEN [kind |-> "return", value |-> step.value]
                                        ELSE [kind |-> "raise", error |-> step.error])
    /\ UNCHANGED <<api_params, response, tool_results, toolVars, answered>>
    /\ UNCHANGED <<pipelineVars, queries>>

\* RAGSystem.query, lines 145-156: the sources are read, then reset, and the
\* answer is handed back with them.
QueryReturn ==
    /\ pc = "returned"
    /\ answered' = Some([kind |-> "return", response |-> result[1].value,
                         sources |-> get_last_sources(last_sources)])
    /\ last_sources' = <<>>
    /\ pc' = "idle"
    /\ UNCHANGED <<api_params, response, tool_results, attempt, result, log,
                   store_call, store_result, tool_call, tool_output>>
    /\ UNCHANGED <<pipelineVars, queries>>

\* RAGSystem.query when generate_response raises: the exception leaves query
\* at line 138, before the sources are read or reset.
QueryRaise ==
    /\ pc = "raised"
    /\ answered' = Some(result[1])
    /\ pc' = "idle"
    /\ UNCHANGED <<api_params, response, tool_results, attempt, result, log,
                   toolVars>>
    /\ UNCHANGED <<pipelineVars, queries>>

Next ==
    \/ StartQuery
    \/ ModelCall1
    \/ ExecuteTool
    \/ ModelCall2
    \/ QueryReturn
    \/ QueryRaise

Spec == Init /\ [][Next]_vars

(***************************************************************************)
(* Direct invocations of the search capability: one call of                *)
(* ToolManager.execute_tool on every input, on a tool instance that may    *)
(* hold the sources of an earlier invocation.                              *)
(***************************************************************************)
ToolNames == {"search_medical_literature", "lookup_drug"}

ToolInputs ==
    [query : {None, Some("q")},
     topic : {None, Some(""), Some("Cardiology")},
     paper_type : {None, Some(""), Some("Review")},
     min_year : {None, Some(0), Some(2022)},
     max_year : {None, Some(0), Some(2025)}]

\* The values last_sources can hold when an invocation starts.
PriorSources == {format_results(from_chroma(r)).last_sources : r \in ChromaResults}

ToolInit ==
    /\ pc = "tool"
    /\ api_params = None
    /\ response = None
    /\ tool_results = <<>>
    /\ attempt = 0
    /\ result = None
    /\ log = <<>>
    /\ last_sources \in PriorSources
    /\ store_call = None
    /\ store_result = None
    /\ tool_call \in {Some([name |-> n, kwargs |-> k]) : n \in ToolNames, k \in ToolInputs}
    /\ tool_output = None
    /\ answered = None
    /\ PipelineIdle
    /\ queries = None

ToolInvoke ==
    /\ pc = "tool"
    /\ tool_output = None
    /\ \E backend \in BackendOutcomes :
          Invoke(tool_call[1].name, tool_call[1].kwargs, backend)
    /\ UNCHANGED orchestratorVars
    /\ UNCHANGED <<pipelineVars, queries>>

ToolNext == ToolInvoke

ToolSpec == ToolInit /\ [][ToolNext]_vars

(***************************************************************************)
(* document_processor.py: the sentence chunker.  chunk_text is modelled    *)
(* from the cleaned sentence list (line 40) on: a sentence is a non-empty  *)
(* string, its length is Len, and a chunk is its sentences joined by one   *)
(* space.  The index i counts from 0 as in the source.                     *)
(***************************************************************************)
MaxSentences == 4   \* sentences of one text
MaxChunkSize == 8   \* largest chunk_size tried
MaxOverlap == 8     \* largest chunk_overlap tried

\* Sentences of 2, 4 and 7 characters.
Sentences == {"A.", "Bbb.", "Cccccc."}

Max(a, b) == IF a >= b THEN a ELSE b

build_chunk_ignore_space(sentences, j, current_chunk, current_size, chunk_size) ==
    LET RECURSIVE loop(_, _, _)
        loop(jj, chunk, size) ==
            IF jj >= Len(sentences) THEN chunk
            ELSE LET sentence == sentences[jj + 1]
                     total_addition == Len(sentence)
                 IN  IF size + total_addition > chunk_size /\ chunk /= <<>>
                     THEN chunk
                     ELSE loop(jj + 1, Append(chunk, sentence), size + total_addition)
    IN  loop(j, current_chunk, current_size)

build_chunk_allow_empty(sentences, j, current_chunk, current_size, chunk_size) ==
    LET RECURSIVE loop(_, _, _)
        loop(jj, chunk, size) ==
            IF jj >= Len(sentences) THEN chunk
            ELSE LET sentence == sentences[jj + 1]
                     space_size == IF chunk /= <<>> THEN 1 ELSE 0
                     total_addition == Len(sentence) + space_size
                 IN  IF size + total_addition > chunk_size
                     THEN chunk
                     ELSE loop(jj + 1, Append(chunk, sentence), size + total_addition)
    IN  loop(j, current_chunk, current_size)

\* chunk_text, lines 50-62: the inner loop that builds current_chunk from
\* sentence j on.
RECURSIVE build_chunk(_, _, _, _, _)
build_chunk(sentences, j, current_chunk, current_size, chunk_size) ==
    IF j >= Len(sentences) THEN current_chunk
    ELSE LET sentence == sentences[j + 1]
             space_size == IF current_chunk /= <<>> THEN 1 ELSE 0
             total_addition == Len(sentence) + space_size
         IN  IF current_size + total_addition > chunk_size /\ current_chunk /= <<>>
             THEN current_chunk
             ELSE build_chunk(sentences, j + 1, Append(current_chunk, sentence),
                              current_size + total_addition, chunk_size)

\* chunk_text, lines 71-81: the number of trailing sentences of current_chunk
\* that fit into chunk_overlap, counted backwards from position k.
RECURSIVE count_overlap(_, _, _, _, _)
count_overlap(current_chunk, k, overlap_size, overlap_sentences, chunk_overlap) ==
    IF k < 0 THEN overlap_sentences
    ELSE LET sentence_len == Len(current_chunk[k + 1])
                             + (IF k < Len(current_chunk) - 1 THEN 1 ELSE 0)
         IN  IF overlap_size + sentence_len <= chunk_overlap
             THEN count_overlap(current_chunk, k - 1, overlap_size + sentence_len,
                                overlap_sentences + 1, chunk_overlap)
             ELSE overlap_sentences

chunk_step_no_progress_guard(sentences, i, chunk_size, chunk_overlap) ==
    LET current_chunk == build_chunk(sentences, i, <<>>, 0, chunk_size)
        overlap_sentences == count_overlap(current_chunk, Len(current_chunk) - 1,
                                           0, 0, chunk_overlap)
    IN  [chunk |-> Some(Join(current_chunk, " ")),
         taken |-> Len(current_chunk),
         i |-> IF chunk_overlap > 0
               THEN i + Len(current_chunk) - overlap_sentences
               ELSE i + Len(current_chunk)]

\* chunk_text, lines 46-91: one iteration of the while loop started at
\* sentence i: the chunk appended (if any), the number of sentences in it and
\* the next value of i.
chunk_step(sentences, i, chunk_size, chunk_overlap) ==
    LET current_chunk == build_chunk(sentences, i, <<>>, 0, chunk_size)
    IN  IF current_chunk /= <<>>
        THEN [chunk |-> Some(Join(current_chunk, " ")),
              taken |-> Len(current_chunk),
              i |-> IF chunk_overlap > 0
                    THEN LET overlap_sentences ==
                                 count_overlap(current_chunk, Len(current_chunk) - 1,
                                               0, 0, chunk_overlap)
                             next_start == i + Len(current_chunk) - overlap_sentences
                         IN  Max(next_start, i + 1)
                    ELSE i + Len(current_chunk)]
        ELSE [chunk |-> None, taken |-> 0, i |-> i + 1]

\* chunk_text, lines 42-93, as a function of the cleaned sentence list.
RECURSIVE chunk_loop(_, _, _, _, _)
chunk_loop(sentences, i, chunks, chunk_size, chunk_overlap) ==
    IF i >= Len(sentences) THEN chunks
    ELSE LET step == chunk_step(sentences, i, chunk_size, chunk_overlap)
         IN  chunk_loop(sentences, step.i,
                        IF step.chunk /= None THEN Append(chunks, step.chunk[1])
                        ELSE chunks,
                        chunk_size, chunk_overlap)

chunk_text(sentences, chunk_size, chunk_overlap) ==
    chunk_loop(sentences, 0, <<>>, chunk_size, chunk_overlap)

(***************************************************************************)
(* One chunk_text call on every sentence list and every configuration,     *)
(* one iteration of its while loop per step.  spans records, for each      *)
(* chunk appended, the index of its first sentence and its sentence count. *)
(***************************************************************************)
ChunkInit ==
    /\ pc = "chunk"
    /\ api_params = None
    /\ response = None
    /\ tool_results = <<>>
    /\ attempt = 0
    /\ result = None
    /\ log = <<>>
    /\ last_sources = <<>>
    /\ store_call = None
    /\ store_result = None
    /\ tool_call = None
    /\ tool_output = None
    /\ answered = None
    /\ chunker \in {Some([sentences |-> t, chunk_size |-> cs, chunk_overlap |-> co,
                          i |-> 0, chunks |-> <<>>, spans |-> <<>>,
                          returned |-> None]) :
                       t \in SeqUpTo(Sentences, MaxSentences),
                       cs \in 0..MaxChunkSize, co \in 0..MaxOverlap}
    /\ parsed = None
    /\ processor = DefaultProcessor
    /\ paper_catalog = {}
    /\ paper_content = {}
    /\ ingest = None
    /\ queries = None

\* chunk_text, lines 45-91: one iteration of the while loop.
ChunkStep ==
    /\ pc = "chunk"
    /\ chunker[1].returned = None
    /\ chunker[1].i < Len(chunker[1].sentences)
    /\ LET c == chunker[1]
           step == chunk_step(c.sentences, c.i, c.chunk_size, c.chunk_overlap)
       IN  chunker' = Some([c EXCEPT
                 !.i = step.i,
                 !.chunks = IF step.chunk /= None THEN Append(@, step.chunk[1]) ELSE @,
                 !.spans = IF step.chunk /= None
                           THEN Append(@, [start |-> c.i, taken |-> step.taken])
                           ELSE @])
    /\ UNCHANGED <<queries, queryVars, parsed, processor, paper_catalog, paper_content,
                   ingest>>

\* chunk_text, lines 45 and 93: the loop ends and the chunks are returned.
ChunkReturn ==
    /\ pc = "chunk"
    /\ chunker[1].returned = None
    /\ chunker[1].i >= Len(chunker[1].sentences)
    /\ chunker' = Some([chunker[1] EXCEPT !.returned = Some(chunker[1].chunks)])
    /\ UNCHANGED <<queries, queryVars, parsed, processor, paper_catalog, paper_content,
                   ingest>>

ChunkNext ==
    \/ ChunkStep
    \/ ChunkReturn

ChunkSpec == ChunkInit /\ [][ChunkNext]_vars

(***************************************************************************)
(* document_processor.py: the JATS parser.  A file is the element tree     *)
(* ET.parse builds from it, reduced to what process_medical_paper reads:   *)
(* the texts of the metadata elements, the abstract and the body.  A text  *)
(* is the list of its sentences; an element has a tag, a title, its own    *)
(* paragraphs and its child elements.                                      *)
(***************************************************************************)
MaxBodyChildren == 2   \* child elements of one body

Paragraph(sentences) ==
    [tag |-> "p", title |-> None, paragraphs |-> <<sentences>>, children |-> <<>>]

Section(title, paragraphs, children) ==
    [tag |-> "sec", title |-> title, paragraphs |-> paragraphs, children |-> children]

\* A paragraph outside any section, a section of two paragraphs, a section
\* whose only paragraph is empty, and a section with a nested untitled section.
BodyElements ==
    {Paragraph(<<"A.">>),
     Section(Some("Methods"), << <<"Cccccc.", "Bbb.">>, <<"A.">> >>, <<>>),
     Section(Some("Results"), << <<>> >>, <<>>),
     Section(Some("Discussion"), << <<"A.">> >>,
             <<Section(None, << <<"Bbb.", "A.">> >>, <<>>)>>)}

\* No body element, or a body of up to MaxBodyChildren distinct elements.
Bodies ==
    {None} \cup {Some(b) : b \in DistinctSeqUpTo(BodyElements, MaxBodyChildren)}

\* No abstract element, an abstract without text, an abstract of 15 characters.
Abstracts == {None, Some(<<>>), Some(<<"Cccccc.", "Bbb.", "A.">>)}

\* Texts of the metadata elements: a document with every element present and
\* a document with none but an unparsable year.
MetaProfiles ==
    {[title |-> Some("P1"), pmcid |-> Some("PMC1"), doi |-> Some("10.1/p1"),
      journal |-> Some("BMJ"), year_text |-> Some("2021"),
      paper_type |-> Some("Review"), authors |-> <<"Ann Lee">>,
      keywords |-> <<"heart">>],
     [title |-> None, pmcid |-> None, doi |-> None, journal |-> None,
      year_text |-> Some("n.d."), paper_type |-> None, authors |-> <<>>,
      keywords |-> <<>>]}

\* fault: what ET.parse does with the file ("none": it returns the tree).
\* restricted: the publisher's restriction notice is in the serialized tree.
XmlFile(name, fault, restricted, meta, abstract, body) ==
    [name |-> name, fault |-> fault, restricted |-> restricted,
     title |-> meta.title, pmcid |-> meta.pmcid, doi |-> meta.doi,
     journal |-> meta.journal, year_text |-> meta.year_text,
     paper_type |-> meta.paper_type, authors |-> meta.authors,
     keywords |-> meta.keywords, abstract |-> abstract, body |-> body]

Files ==
    {XmlFile("f1.xml", "none", FALSE, meta, abstract, body) :
        meta \in MetaProfiles, abstract \in Abstracts, body \in Bodies}
    \cup {XmlFile("f1.xml", fault, FALSE, meta, None, None) :
        fault \in {"parse_error", "os_error"}, meta \in MetaProfiles}
    \cup {XmlFile("f1.xml", "none", TRUE, meta, Some(<<"A.">>),
                  Some(<<Section(Some("Methods"), << <<"A.">> >>, <<>>)>>)) :
        meta \in MetaProfiles}

\* The metadata directories and, for each, its two metadata files in the
\* order they are read: None for a file that is absent or unreadable, else
\* the entries of its 'papers' list.
MetadataDirs == {"data", "archive"}

metadata_files(metadata_dir) ==
    IF metadata_dir = "data"
    THEN <<Some(<<[title |-> "P1", topic |-> "Cardiology"],
                  [title |-> "", topic |-> "Oncology"],
                  [title |-> "P2", topic |-> ""]>>),
           None>>
    ELSE <<Some(<<[title |-> "P1", topic |-> "Oncology"]>>),
           Some(<<[title |-> "f1.xml", topic |-> "Cardiology"],
                  [title |-> "P1", topic |-> "Neurology"]>>)>>

\* Concatenation of a sequence of sequences.
RECURSIVE FlattenSeq(_)
FlattenSeq(seqs) ==
    IF seqs = <<>> THEN <<>> ELSE Head(seqs) \o FlattenSeq(Tail(seqs))

\* _load_topic_mapping, lines 109-121: the entries of the metadata files
\* from position k on are added to mapping m.
RECURSIVE add_entries(_, _, _)
add_entries(m, entries, k) ==
    IF k > Len(entries) THEN m
    ELSE LET title == entries[k].title
             topic == entries[k].topic
         IN  add_entries(IF title /= "" /\ topic /= ""
                         THEN [x \in DOMAIN m \cup {title} |->
                                   IF x = title THEN topic ELSE m[x]]
                         ELSE m,
                         entries, k + 1)

load_topic_mapping_reload(cached, metadata_dir) ==
    LET files == metadata_files(metadata_dir)
        readable == SelectSeq(files, LAMBDA f : f /= None)
        entries == FlattenSeq([k \in 1..Len(readable) |-> readable[k][1]])
    IN  Some(add_entries(<<>>, entries, 1))

\* DocumentProcessor._load_topic_mapping: the value of _topic_mapping after
\* the call, which is also what the call returns.
load_topic_mapping(cached, metadata_dir) ==
    IF cached /= None THEN cached
    ELSE LET files == metadata_files(metadata_dir)
             readable == SelectSeq(files, LAMBDA f : f /= None)
             entries == FlattenSeq([k \in 1..Len(readable) |-> readable[k][1]])
         IN  Some(add_entries(<<>>, entries, 1))

\* DocumentProcessor._check_if_abstract_only.
check_if_abstract_only(file) ==
    \/ file.restricted
    \/ file.body = None
    \/ Len(file.body[1]) = 0

\* DocumentProcessor._extract_abstract: the text, or None when there is no
\* abstract element or it has no text.
extract_abstract(file) ==
    IF file.abstract /= None
    THEN LET abstract_text == Join(file.abstract[1], " ")
         IN  IF abstract_text /= "" THEN Some(abstract_text) ELSE None
    ELSE None

\* body.findall('.//sec'): the sec elements below the given elements, in
\* document order.
RECURSIVE all_secs(_)
all_secs(elements) ==
    IF elements = <<>> THEN <<>>
    ELSE LET e == Head(elements)
         IN  (IF e.tag = "sec" THEN <<e>> ELSE <<>>)
             \o all_secs(e.children) \o all_secs(Tail(elements))

\* sec.findall('.//p'): the paragraphs below an element, in document order.
RECURSIVE all_paragraphs(_)
all_paragraphs(element) ==
    element.paragraphs
    \o FlattenSeq([k \in 1..Len(element.children) |->
                      all_paragraphs(element.children[k])])

\* DocumentProcessor._extract_body_sections: title and content of every sec
\* that has a non-empty paragraph; the content is kept as its sentences.
extract_body_sections(file) ==
    IF file.body = None THEN <<>>
    ELSE LET secs == all_secs(file.body[1])
             content_parts(sec) ==
                 SelectSeq(all_paragraphs(sec), LAMBDA p : Join(p, " ") /= "")
             with_content == SelectSeq(secs, LAMBDA sec : content_parts(sec) /= <<>>)
         IN  [k \in 1..Len(with_content) |->
                 [title |-> IF with_content[k].title /= None
                               /\ with_content[k].title[1] /= ""
                            THEN with_content[k].title[1]
                            ELSE "Untitled Section",
                  sentences |-> FlattenSeq(content_parts(with_content[k]))]]

\* process_medical_paper, lines 270-277: int() of the year text.  "2021" is
\* the one numeral among the year texts; any other text is a ValueError.
parse_year(year_text) ==
    IF year_text /= None /\ year_text[1] /= ""
    THEN IF year_text[1] = "2021" THEN Some(2021) ELSE None
    ELSE None

\* PaperChunk(...) as built on lines 313-324 and 334-345.
make_chunk(paper, section_title, text, chunk_counter) ==
    [content |-> "Paper: " \o paper.title \o " | Section: " \o section_title
                 \o "\n" \o text,
     paper_title |-> paper.title, pmcid |-> paper.pmcid, doi |-> paper.doi,
     journal |-> paper.journal, year |-> paper.year, topic |-> paper.topic,
     section_title |-> Some(section_title), chunk_index |-> chunk_counter]

\* process_medical_paper, lines 329-347: the chunks of the sections from
\* position k on, appended to paper_chunks; chunk_counter is Len(paper_chunks).
RECURSIVE section_chunks(_, _, _, _, _)
section_chunks(paper, sections, k, paper_chunks, proc) ==
    IF k > Len(sections) THEN paper_chunks
    ELSE LET chunks == chunk_text(sections[k].sentences, proc.chunk_size,
                                  proc.chunk_overlap)
             chunk_counter == Len(paper_chunks)
         IN  section_chunks(paper, sections, k + 1,
                            paper_chunks
                            \o [c \in 1..Len(chunks) |->
                                   make_chunk(paper, sections[k].title, chunks[c],
                                              chunk_counter + c - 1)],
                            proc)

build_chunks_abstract_chunked(file, paper, proc) ==
    section_chunks(paper,
                   (IF file.abstract /= None /\ file.abstract[1] /= <<>>
                    THEN <<[title |-> "Abstract", sentences |-> file.abstract[1]]>>
                    ELSE <<>>)
                   \o extract_body_sections(file),
                   1, <<>>, proc)

\* process_medical_paper, lines 306-347: the chunks of a document.
build_chunks(file, paper, proc) ==
    LET abstract == extract_abstract(file)
        paper_chunks == IF abstract /= None
                        THEN <<make_chunk(paper, "Abstract", abstract[1], 0)>>
                        ELSE <<>>
    IN  section_chunks(paper, extract_body_sections(file), 1, paper_chunks, proc)

\* DocumentProcessor.process_medical_paper: what it returns, and the value
\* of _topic_mapping when it returns.
process_medical_paper(file, metadata_dir, proc) ==
    IF file.fault /= "none" \/ check_if_abstract_only(file)
    THEN [result |-> None, topic_mapping |-> proc.topic_mapping]
    ELSE LET title == IF file.title /= None /\ file.title[1] /= ""
                      THEN file.title[1] ELSE file.name
             topic_mapping == load_topic_mapping(proc.topic_mapping, metadata_dir)
             paper == [title |-> title, pmcid |-> file.pmcid, doi |-> file.doi,
                       journal |-> file.journal, year |-> parse_year(file.year_text),
                       authors |-> file.authors, paper_type |-> file.paper_type,
                       topic |-> IF title \in DOMAIN topic_mapping[1]
                                 THEN Some(topic_mapping[1][title]) ELSE None,
                       keywords |-> file.keywords]
         IN  [result |-> Some([paper |-> paper,
                               chunks |-> build_chunks(file, paper, proc)]),
              topic_mapping |-> topic_mapping]

(***************************************************************************)
(* One parser instance parsing files one after another: parsed holds the   *)
(* arguments of the call in flight and, once it has returned, its result.  *)
(***************************************************************************)
ParseCalls ==
    {Some([file |-> file, metadata_dir |-> metadata_dir, returned |-> FALSE,
           result |-> None]) :
        file \in Files, metadata_dir \in MetadataDirs}

ParseInit ==
    /\ pc = "parse"
    /\ api_params = None
    /\ response = None
    /\ tool_results = <<>>
    /\ attempt = 0
    /\ result = None
    /\ log = <<>>
    /\ last_sources = <<>>
    /\ store_call = None
    /\ store_result = None
    /\ tool_call = None
    /\ tool_output = None
    /\ answered = None
    /\ chunker = None
    /\ parsed \in ParseCalls
    /\ processor \in ProcessorConfigs
    /\ paper_catalog = {}
    /\ paper_content = {}
    /\ ingest = None
    /\ queries = None

\* process_medical_paper runs on the arguments of the call in flight.
ParseFile ==
    /\ pc = "parse"
    /\ ~parsed[1].returned
    /\ LET out == process_medical_paper(parsed[1].file, parsed[1].metadata_dir,
                                        processor)
       IN  /\ parsed' = Some([parsed[1] EXCEPT !.returned = TRUE,
                                               !.result = out.result])
           /\ processor' = [processor EXCEPT !.topic_mapping = out.topic_mapping]
    /\ UNCHANGED <<queries, queryVars, chunker, paper_catalog, paper_content, ingest>>

\* The same instance is called again, on any file and metadata directory.
ParseCall ==
    /\ pc = "parse"
    /\ parsed[1].returned
    /\ parsed' \in ParseCalls
    /\ UNCHANGED <<queries, queryVars, chunker, processor, paper_catalog, paper_content,
                   ingest>>

ParseNext ==
    \/ ParseFile
    \/ ParseCall

ParseSpec == ParseInit /\ [][ParseNext]_vars

(***************************************************************************)
(* vector_store.py: the ingestion side of the facade.  A collection is the *)
(* set of its records; a record has an id, a document and a metadata dict  *)
(* from which the None values were removed.  The backend keeps ids unique: *)
(* an add either raises or stores the records whose id is not yet present. *)
(***************************************************************************)
MaxFolderFiles == 3   \* files in the ingested folder

StoreOutcomes == {"ok", "raise"}

\* json.dumps of a list of strings.
json_dumps(strings) ==
    "[" \o Join([k \in 1..Len(strings) |-> "\"" \o strings[k] \o "\""], ", ") \o "]"

\* {k: v for k, v in metadata.items() if v is not None}
remove_none(metadata) ==
    [k \in {key \in DOMAIN metadata : metadata[key] /= None} |-> metadata[k][1]]

Ids(collection) == {r.id : r \in collection}

\* collection.add of the backend when it does not raise.
collection_add(collection, records) ==
    collection \cup {r \in records : r.id \notin Ids(collection)}

\* VectorStore.add_paper_metadata: the record handed to paper_catalog.add.
catalog_record(paper) ==
    [id |-> paper.title,
     document |-> paper.title \o " " \o Join(paper.keywords, " "),
     metadata |-> remove_none(
         [title |-> Some(paper.title), topic |-> paper.topic,
          journal |-> paper.journal, year |-> paper.year,
          paper_type |-> paper.paper_type, pmcid |-> paper.pmcid,
          doi |-> paper.doi, authors_json |-> Some(json_dumps(paper.authors)),
          keywords_json |-> Some(json_dumps(paper.keywords)),
          author_count |-> Some(Len(paper.authors))])]

\* str.replace(' ', '_').replace('/', '_') on the titles of the model: the
\* titles with a space or a slash are listed, the others hold neither.
replace_separators(title) ==
    CASE title = "P 1" -> "P_1"
      [] title = "P/1" -> "P_1"
      [] OTHER -> title

\* VectorStore.add_paper_content, lines 158-176: the records handed to
\* paper_content.add.
content_records(chunks) ==
    {[id |-> replace_separators(chunks[k].paper_title) \o "_"
             \o ToString(chunks[k].chunk_index),
      document |-> chunks[k].content,
      metadata |-> remove_none(
          [paper_title |-> Some(chunks[k].paper_title), topic |-> chunks[k].topic,
           section_title |-> chunks[k].section_title,
           chunk_index |-> Some(chunks[k].chunk_index), pmcid |-> chunks[k].pmcid,
           doi |-> chunks[k].doi, journal |-> chunks[k].journal,
           year |-> chunks[k].year])] : k \in 1..Len(chunks)}

\* VectorStore.get_existing_paper_titles.
get_existing_paper_titles(catalog, outcome) ==
    IF outcome = "ok" THEN Ids(catalog) ELSE {}

\* VectorStore.get_paper_count.
get_paper_count(catalog) == Cardinality(Ids(catalog))

(***************************************************************************)
(* rag_system.py: add_papers_from_folder.                                  *)
(***************************************************************************)
\* The files a folder can hold: two documents titled P1, a document without
\* a title element whose body has no section, a malformed file and an
\* unreadable file.
IngestFiles ==
    LET full == CHOOSE m \in MetaProfiles : m.title = Some("P1")
        bare == CHOOSE m \in MetaProfiles : m.title = None
    IN  {XmlFile("a.xml", "none", FALSE, full, Some(<<"Cccccc.", "Bbb.", "A.">>),
                 Some(<<Section(Some("Methods"), << <<"Cccccc.", "Bbb.">>, <<"A.">> >>,
                                <<>>)>>)),
         XmlFile("b.xml", "none", FALSE, full, None,
                 Some(<<Section(Some("Results"), << <<"Bbb.">> >>, <<>>)>>)),
         XmlFile("c.xml", "none", FALSE, bare, None, Some(<<Paragraph(<<"A.">>)>>)),
         XmlFile("d.xml", "parse_error", FALSE, bare, None, None),
         XmlFile("e.xml", "os_error", FALSE, full, None, None)}

\* The folder is missing, or lists up to MaxFolderFiles files in any order.
Folders ==
    {None} \cup {Some(f) : f \in DistinctSeqUpTo(IngestFiles, MaxFolderFiles)}

add_papers_step_no_title_check(run, file_result, catalog, content, meta_outcome, content_outcome) ==
    IF file_result = None
    THEN [catalog |-> catalog, content |-> content,
          existing_paper_titles |-> run.existing_paper_titles,
          total_papers |-> run.total_papers, total_chunks |-> run.total_chunks,
          outcome |-> "skipped", i |-> run.i + 1]
    ELSE IF meta_outcome = "raise"
    THEN [catalog |-> catalog, content |-> content,
          existing_paper_titles |-> run.existing_paper_titles,
          total_papers |-> run.total_papers, total_chunks |-> run.total_chunks,
          outcome |-> "error", i |-> run.i + 1]
    ELSE IF file_result[1].chunks /= <<>> /\ content_outcome = "raise"
    THEN [catalog |-> collection_add(catalog, {catalog_record(file_result[1].paper)}),
          content |-> content,
          existing_paper_titles |-> run.existing_paper_titles,
          total_papers |-> run.total_papers, total_chunks |-> run.total_chunks,
          outcome |-> "error", i |-> run.i + 1]
    ELSE [catalog |-> collection_add(catalog, {catalog_record(file_result[1].paper)}),
          content |-> collection_add(content, content_records(file_result[1].chunks)),
          existing_paper_titles |->
              run.existing_paper_titles \cup {file_result[1].paper.title},
          total_papers |-> run.total_papers + 1,
          total_chunks |-> run.total_chunks + Len(file_result[1].chunks),
          outcome |-> "added", i |-> run.i + 1]

add_papers_step_abort_on_skip(run, file_result, catalog, content, meta_outcome, content_outcome) ==
    IF file_result = None
    THEN [catalog |-> catalog, content |-> content,
          existing_paper_titles |-> run.existing_paper_titles,
          total_papers |-> run.total_papers, total_chunks |-> run.total_chunks,
          outcome |-> "skipped", i |-> Len(run.folder[1])]
    ELSE IF file_result[1].paper.title \in run.existing_paper_titles
    THEN [catalog |-> catalog, content |-> content,
          existing_paper_titles |-> run.existing_paper_titles,
          total_papers |-> run.total_papers, total_chunks |-> run.total_chunks,
          outcome |-> "exists", i |-> run.i + 1]
    ELSE add_papers_step_no_title_check(run, file_result, catalog, content,
                                        meta_outcome, content_outcome)

\* add_papers_from_folder, lines 96-117: one iteration of the loop, on the
\* result of process_medical_paper and the outcomes of the two store adds:
\* the collections, the locals and the loop position after it.
add_papers_step(run, file_result, catalog, content, meta_outcome, content_outcome) ==
    LET unchanged(outcome) ==
            [catalog |-> catalog, content |-> content,
             existing_paper_titles |-> run.existing_paper_titles,
             total_papers |-> run.total_papers, total_chunks |-> run.total_chunks,
             outcome |-> outcome, i |-> run.i + 1]
    IN  IF file_result = None THEN unchanged("skipped")
        ELSE LET paper == file_result[1].paper
                 paper_chunks == file_result[1].chunks
             IN  IF paper.title \notin run.existing_paper_titles
                 THEN IF meta_outcome = "raise" THEN unchanged("error")
                      ELSE LET catalog1 == collection_add(catalog,
                                                          {catalog_record(paper)})
                           IN  IF paper_chunks /= <<>> /\ content_outcome = "raise"
                               THEN [unchanged("error") EXCEPT !.catalog = catalog1]
                               ELSE [catalog |-> catalog1,
                                     content |->
                                         IF paper_chunks = <<>> THEN content
                                         ELSE collection_add(content,
                                                  content_records(paper_chunks)),
                                     existing_paper_titles |->
                                         run.existing_paper_titles \cup {paper.title},
                                     total_papers |-> run.total_papers + 1,
                                     total_chunks |->
                                         run.total_chunks + Len(paper_chunks),
                                     outcome |-> "added", i |-> run.i + 1]
                 ELSE unchanged("exists")

(***************************************************************************)
(* Calls of add_medical_paper, one after another, on one persistent store  *)
(* that is empty before the first call.  The files carry titles that       *)
(* differ in a space, a slash or an underscore only.  Of the calls ingest  *)
(* keeps the file and the result of the last one, and the title, position  *)
(* index and id of every chunk handed to paper_content.add so far.         *)
(***************************************************************************)
SeparatorTitles == {"P 1", "P/1", "P_1"}

PaperFiles ==
    LET meta(title) == [title |-> Some(title), pmcid |-> None, doi |-> None,
                        journal |-> Some("BMJ"), year_text |-> Some("2021"),
                        paper_type |-> Some("Review"), authors |-> <<"Ann Lee">>,
                        keywords |-> <<>>]
    IN  {XmlFile("s.xml", "none", FALSE, meta(title), abstract,
                 Some(<<Section(Some("Results"), << <<"Bbb.">> >>, <<>>)>>)) :
            title \in SeparatorTitles, abstract \in {None, Some(<<"A.">>)}}
        \cup {XmlFile("s.xml", "parse_error", FALSE, meta("P_1"), None, None)}

\* RAGSystem.add_medical_paper on what process_medical_paper gave for the
\* file: what it returns, the two collections after it and the records it
\* handed to paper_content.add.  An exception of the store is caught and
\* (None, 0) returned.
add_medical_paper(file_result, catalog, content, meta_outcome, content_outcome) ==
    IF file_result = None
    THEN [returned |-> <<None, 0>>, catalog |-> catalog, content |-> content,
          handed |-> {}]
    ELSE LET paper == file_result[1].paper
             paper_chunks == file_result[1].chunks
         IN  IF meta_outcome = "raise"
             THEN [returned |-> <<None, 0>>, catalog |-> catalog,
                   content |-> content, handed |-> {}]
             ELSE LET catalog1 == collection_add(catalog, {catalog_record(paper)})
                      records == IF paper_chunks = <<>> THEN {}
                                 ELSE content_records(paper_chunks)
                  IN  IF paper_chunks /= <<>> /\ content_outcome = "raise"
                      THEN [returned |-> <<None, 0>>, catalog |-> catalog1,
                            content |-> content, handed |-> records]
                      ELSE [returned |-> <<Some(paper), Len(paper_chunks)>>,
                            catalog |-> catalog1,
                            content |-> collection_add(content, records),
                            handed |-> records]

PaperInit ==
    /\ pc = "paper"
    /\ api_params = None
    /\ response = None
    /\ tool_results = <<>>
    /\ attempt = 0
    /\ result = None
    /\ log = <<>>
    /\ last_sources = <<>>
    /\ store_call = None
    /\ store_result = None
    /\ tool_call = None
    /\ tool_output = None
    /\ answered = None
    /\ chunker = None
    /\ parsed = None
    /\ processor = DefaultProcessor
    /\ paper_catalog = {}
    /\ paper_content = {}
    /\ ingest = Some([status |-> "single", file |-> None, returned |-> None,
                      handed |-> {}])
    /\ queries = None

\* One call of add_medical_paper, lines 44-63.
AddMedicalPaper ==
    /\ pc = "paper"
    /\ \E file \in PaperFiles, meta_outcome \in StoreOutcomes,
          content_outcome \in StoreOutcomes :
          LET out == process_medical_paper(file, "data", processor)
              call == add_medical_paper(out.result, paper_catalog, paper_content,
                                        meta_outcome, content_outcome)
          IN  /\ processor' = [processor EXCEPT !.topic_mapping = out.topic_mapping]
              /\ paper_catalog' = call.catalog
              /\ paper_content' = call.content
              /\ ingest' = Some([ingest[1] EXCEPT
                    !.file = Some(file),
                    !.returned = Some(call.returned),
                    !.handed = @ \cup
                        {[paper_title |-> r.metadata.paper_title,
                          chunk_index |-> r.metadata.chunk_index,
                          id |-> r.id] : r \in call.handed}])
    /\ UNCHANGED <<queries, queryVars, chunker, parsed>>

PaperNext == AddMedicalPaper

PaperSpec == PaperInit /\ [][PaperNext]_vars

(***************************************************************************)
(* Runs of add_papers_from_folder, one after another, over one folder and  *)
(* one persistent store that is empty before the first run.  A step is one *)
(* iteration of the loop over the files.  Of each run ingest keeps the     *)
(* locals, the collections as they were when the loop started (before),    *)
(* and per iteration the file, how it ended and the ids it added (steps).  *)
(* rerun tells that a run over the folder returned before this one,        *)
(* faulted that a store operation of this run failed, and prev_faulted     *)
(* that one of the run before it did.                                      *)
(***************************************************************************)
IngestInit ==
    /\ pc = "ingest"
    /\ api_params = None
    /\ response = None
    /\ tool_results = <<>>
    /\ attempt = 0
    /\ result = None
    /\ log = <<>>
    /\ last_sources = <<>>
    /\ store_call = None
    /\ store_result = None
    /\ tool_call = None
    /\ tool_output = None
    /\ answered = None
    /\ chunker = None
    /\ parsed = None
    /\ processor = DefaultProcessor
    /\ paper_catalog = {}
    /\ paper_content = {}
    /\ ingest \in {Some([status |-> "idle", folder |-> folder, metadata_dir |-> "data",
                         clear_existing |-> FALSE, i |-> 0,
                         existing_paper_titles |-> {}, total_papers |-> 0,
                         total_chunks |-> 0, steps |-> <<>>,
                         before |-> [catalog |-> {}, content |-> {}],
                         rerun |-> FALSE, prev_faulted |-> FALSE,
                         faulted |-> FALSE, returned |-> None]) :
                      folder \in Folders}
    /\ queries = None

\* add_papers_from_folder, lines 77-90: the optional clear, the test for the
\* folder and the listing of the titles in the catalog.  clear_all_data and
\* get_existing_paper_titles catch the failure of the backend.
IngestStart ==
    /\ pc = "ingest"
    /\ ingest[1].status \in {"idle", "returned"}
    /\ \E clear_existing \in BOOLEAN, clear_outcome \in StoreOutcomes,
          list_outcome \in StoreOutcomes :
          LET cleared == clear_existing /\ clear_outcome = "ok"
              catalog == IF cleared THEN {} ELSE paper_catalog
              content == IF cleared THEN {} ELSE paper_content
              missing == ingest[1].folder = None
              failed == \/ clear_existing /\ clear_outcome = "raise"
                        \/ ~missing /\ list_outcome = "raise"
          IN  /\ paper_catalog' = catalog
              /\ paper_content' = content
              /\ ingest' = Some([ingest[1] EXCEPT
                    !.status = IF missing THEN "returned" ELSE "running",
                    !.clear_existing = clear_existing,
                    !.i = 0,
                    !.existing_paper_titles =
                        IF missing THEN {}
                        ELSE get_existing_paper_titles(catalog, list_outcome),
                    !.total_papers = 0,
                    !.total_chunks = 0,
                    !.steps = <<>>,
                    !.before = [catalog |-> catalog, content |-> content],
                    !.rerun = ingest[1].status = "returned",
                    !.prev_faulted = ingest[1].faulted,
                    !.faulted = failed,
                    !.returned = IF missing THEN Some(<<0, 0>>) ELSE None])
    /\ UNCHANGED <<queries, queryVars, chunker, parsed, processor>>

\* add_papers_from_folder, lines 93-117: one iteration of the loop: the file
\* is parsed and, when it gave a paper with a new title, added to the store.
IngestFile ==
    /\ pc = "ingest"
    /\ ingest[1].status = "running"
    /\ ingest[1].i < Len(ingest[1].folder[1])
    /\ \E meta_outcome \in StoreOutcomes, content_outcome \in StoreOutcomes :
          LET run == ingest[1]
              file == run.folder[1][run.i + 1]
              out == process_medical_paper(file, run.metadata_dir, processor)
              step == add_papers_step(run, out.result, paper_catalog, paper_content,
                                      meta_outcome, content_outcome)
          IN  /\ processor' = [processor EXCEPT !.topic_mapping = out.topic_mapping]
              /\ paper_catalog' = step.catalog
              /\ paper_content' = step.content
              /\ ingest' = Some([run EXCEPT
                    !.i = step.i,
                    !.existing_paper_titles = step.existing_paper_titles,
                    !.total_papers = step.total_papers,
                    !.total_chunks = step.total_chunks,
                    !.faulted = @ \/ step.outcome = "error",
                    !.steps = Append(@,
                        [name |-> file.name, outcome |-> step.outcome,
                         title |-> IF out.result = None THEN None
                                   ELSE Some(out.result[1].paper.title),
                         catalog_added |-> Ids(step.catalog) \ Ids(paper_catalog),
                         content_added |-> Ids(step.content) \ Ids(paper_content)])])
    /\ UNCHANGED <<queries, queryVars, chunker, parsed>>

\* add_papers_from_folder, line 119: the loop is over, the totals are returned.
IngestReturn ==
    /\ pc = "ingest"
    /\ ingest[1].status = "running"
    /\ ingest[1].i >= Len(ingest[1].folder[1])
    /\ ingest' = Some([ingest[1] EXCEPT
          !.status = "returned",
          !.returned = Some(<<ingest[1].total_papers, ingest[1].total_chunks>>)])
    /\ UNCHANGED <<queries, queryVars, chunker, parsed, processor, paper_catalog,
                   paper_content>>

IngestNext ==
    \/ IngestStart
    \/ IngestFile
    \/ IngestReturn

IngestSpec == IngestInit /\ [][IngestNext]_vars

(***************************************************************************)
(* Two queries running at the same time on one RAGSystem, each on its own  *)
(* thread: they share the one registered tool and so its last_sources.     *)
(* A step of a query runs from one outbound call to the next; reading the  *)
(* sources (query, line 146) and resetting them (line 149) are two steps.  *)
(* Of each query queries keeps where it stands (pc), the tool_use block it *)
(* is to execute, the loop index of the final call, the outcome of         *)
(* generate_response, the sources it read and what it handed back; own is  *)
(* what last_sources would hold had only this query's searches run.        *)
(***************************************************************************)
QueryIds == {"A", "B"}

\* The first responses of a concurrent query: at most one content block.
ConcFirstResponses == {r \in FirstResponses : Len(r.content) <= 1}

ConcInit ==
    /\ pc = "concurrent"
    /\ api_params = None
    /\ response = None
    /\ tool_results = <<>>
    /\ attempt = 0
    /\ result = None
    /\ log = <<>>
    /\ last_sources = <<>>
    /\ store_call = None
    /\ store_result = None
    /\ tool_call = None
    /\ tool_output = None
    /\ answered = None
    /\ PipelineIdle
    /\ queries = Some([q \in QueryIds |->
                         [pc |-> "call1", request |-> None, attempt |-> 0,
                          result |-> None, own |-> <<>>, sources |-> None,
                          answered |-> None]])

ConcUnchanged ==
    UNCHANGED <<pc, api_params, response, tool_results, attempt, result, log,
                store_call, store_result, tool_call, tool_output, answered,
                pipelineVars>>

\* generate_response, lines 89-96, of query q.
ConcModelCall1(q) ==
    /\ pc = "concurrent"
    /\ queries[1][q].pc = "call1"
    /\ \E outcome \in CreateOutcomes(ConcFirstResponses) :
          LET me == queries[1][q]
              next ==
                  IF outcome.kind = "raise"
                  THEN [me EXCEPT !.pc = "raised", !.result = Some(outcome)]
                  ELSE IF outcome.value.stop_reason = "tool_use" /\ tool_manager
                  THEN IF ToolUses(outcome.value.content) = {}
                       THEN [me EXCEPT !.pc = "call2"]
                       ELSE [me EXCEPT !.pc = "tools",
                                !.request = Some(outcome.value.content[
                                    nth_tool_use(outcome.value.content, 1, 1)])]
                  ELSE [me EXCEPT
                           !.pc = IF direct_answer(outcome.value).kind = "return"
                                  THEN "returned" ELSE "raised",
                           !.result = Some(direct_answer(outcome.value))]
          IN  queries' = Some([queries[1] EXCEPT ![q] = next])
    /\ UNCHANGED last_sources
    /\ ConcUnchanged

\* _handle_tool_execution, lines 118-133, of query q: the tool_use block is
\* executed on the shared tool.
ConcExecuteTool(q) ==
    /\ pc = "concurrent"
    /\ queries[1][q].pc = "tools"
    /\ \E backend \in BackendOutcomes :
          LET me == queries[1][q]
              block == me.request[1]
              r == execute_tool(block.name, block.input, backend, last_sources)
              alone == execute_tool(block.name, block.input, backend, me.own)
          IN  /\ last_sources' = r.last_sources
              /\ queries' = Some([queries[1] EXCEPT ![q] =
                    IF r.outcome.kind = "raise"
                    THEN [me EXCEPT !.pc = "raised", !.result = Some(r.outcome),
                                    !.request = None]
                    ELSE [me EXCEPT !.pc = "call2", !.request = None,
                                    !.own = alone.last_sources]])
    /\ ConcUnchanged

\* _handle_tool_execution, lines 144-175, of query q: one iteration of the
\* retry loop.
ConcModelCall2(q) ==
    /\ pc = "concurrent"
    /\ queries[1][q].pc = "call2"
    /\ \E outcome \in CreateOutcomes(FinalResponses) :
          LET me == queries[1][q]
              step == final_step(outcome, me.attempt)
          IN  queries' = Some([queries[1] EXCEPT ![q] =
                  IF step.next = "retry"
                  THEN [me EXCEPT !.attempt = @ + 1]
                  ELSE IF step.next = "return"
                  THEN [me EXCEPT !.pc = "returned",
                           !.result = Some([kind |-> "return",
                                            value |-> step.value])]
                  ELSE [me EXCEPT !.pc = "raised",
                           !.result = Some([kind |-> "raise",
                                            error |-> step.error])]])
    /\ UNCHANGED last_sources
    /\ ConcUnchanged

\* RAGSystem.query, line 146, of query q: the sources are read.
ConcReadSources(q) ==
    /\ pc = "concurrent"
    /\ queries[1][q].pc = "returned"
    /\ queries' = Some([queries[1] EXCEPT ![q] =
          [@ EXCEPT !.pc = "read",
                    !.sources = Some(get_last_sources(last_sources))]])
    /\ UNCHANGED last_sources
    /\ ConcUnchanged

\* RAGSystem.query, lines 149-156, of query q: the sources are reset and the
\* answer is handed back with the sources read.
ConcResetSources(q) ==
    /\ pc = "concurrent"
    /\ queries[1][q].pc = "read"
    /\ last_sources' = <<>>
    /\ LET me == queries[1][q]
       IN  queries' = Some([queries[1] EXCEPT ![q] =
              [me EXCEPT !.pc = "done",
                         !.answered = Some([kind |-> "return",
                                            response |-> me.result[1].value,
                                            sources |-> me.sources[1]])]])
    /\ ConcUnchanged

\* RAGSystem.query of query q when generate_response raises: the exception
\* leaves query at line 138.
ConcQueryRaise(q) ==
    /\ pc = "concurrent"
    /\ queries[1][q].pc = "raised"
    /\ LET me == queries[1][q]
       IN  queries' = Some([queries[1] EXCEPT ![q] =
              [me EXCEPT !.pc = "done", !.answered = Some(me.result[1])]])
    /\ UNCHANGED last_sources
    /\ ConcUnchanged

ConcNext ==
    \/ \E q \in QueryIds : ConcModelCall1(q)
    \/ \E q \in QueryIds : ConcExecuteTool(q)
    \/ \E q \in QueryIds : ConcModelCall2(q)
    \/ \E q \in QueryIds : ConcReadSources(q)
    \/ \E q \in QueryIds : ConcResetSources(q)
    \/ \E q \in QueryIds : ConcQueryRaise(q)

ConcSpec == ConcInit /\ [][ConcNext]_vars

(***************************************************************************)
(* Properties.  The log of a query holds its model calls and its tool      *)
(* executions in the order they happened.                                  *)
(***************************************************************************)
IsCall(e, n) == e.ev = "create" /\ e.call = n

IsExec(e) == e.ev = "execute_tool"

\* Positions in the log of the calls numbered n, and of the tool executions.
CallsAt(n) == {i \in 1..Len(log) : IsCall(log[i], n)}

ExecsAt == {i \in 1..Len(log) : IsExec(log[i])}

\* generate_response has come to its end (it returned or raised).
Finished == pc \in {"returned", "raised", "idle"} /\ result /= None

\* A response of the final call that the retry loop rejects.
Malformed(outcome) ==
    /\ outcome.kind = "return"
    /\ (Len(outcome.value.content) = 0 \/ ~HasText(outcome.value.content[1]))

WellFormed(outcome) == outcome.kind = "return" /\ ~Malformed(outcome)

\* The first response took the direct-answer path.
DirectPath == response /= None /\ response[1].stop_reason /= "tool_use"

\* C1: when the first model response has a stop reason other than tool_use,
\* no capability is executed, no second model call is made, and what
\* generate_response returns is the text of the first content block of that
\* response (it returns whenever that block has a text).
C1_DirectAnswer ==
    DirectPath =>
        LET content == response[1].content
        IN  /\ ExecsAt = {}
            /\ tool_call = None
            /\ CallsAt(2) = {}
            /\ Len(log) = 1
            /\ Finished
            /\ result[1].kind = "return" =>
                  /\ Len(content) > 0
                  /\ HasText(content[1])
                  /\ result[1].value = content[1].text
            /\ (Len(content) > 0 /\ HasText(content[1])) => result[1].kind = "return"
            /\ (answered /= None /\ answered[1].kind = "return") =>
                  answered[1].response = content[1].text

\* Witness of C1: a direct answer was returned from a response of several
\* blocks, and handed back by query.
C1_Witness ==
    /\ DirectPath
    /\ Len(response[1].content) > 1
    /\ answered /= None
    /\ answered[1].kind = "return"
    /\ answered[1].response = "answer 1"

\* The first response asks for tools and carries exactly one request.
OneRequest ==
    /\ response /= None
    /\ response[1].stop_reason = "tool_use"
    /\ Cardinality(ToolUses(response[1].content)) = 1

\* C2: when the first response has stop reason tool_use and carries one
\* capability request, exactly one capability execution occurs, it happens
\* before the second model call, and the message list sent in that call is
\* the original list followed by the assistant tool-request message and one
\* user tool-result message (length original + 2).
C2_OneToolRoundTrip ==
    OneRequest =>
        LET original == log[1].params.messages
        IN  /\ Cardinality(ExecsAt) <= 1
            /\ pc /= "tools" => Cardinality(ExecsAt) = 1
            /\ \A i \in CallsAt(2) :
                  LET sent == log[i].params.messages
                  IN  /\ \E j \in ExecsAt : j < i
                      /\ Len(sent) = Len(original) + 2
                      /\ SubSeq(sent, 1, Len(original)) = original
                      /\ sent[Len(original) + 1] =
                            [role |-> "assistant", content |-> response[1].content]
                      /\ sent[Len(original) + 2].role = "user"
                      /\ Len(sent[Len(original) + 2].content) = 1
                      /\ sent[Len(original) + 2].content[1].type = "tool_result"

\* Witness of C2: the second call was made after the one execution, on a
\* response that also holds a text block.
C2_Witness ==
    /\ OneRequest
    /\ Len(response[1].content) = 2
    /\ CallsAt(2) /= {}
    /\ Cardinality(ExecsAt) = 1
    /\ Len(log[Len(log)].params.messages) = 3

\* C3: at most one capability round trip per query: the second model call is
\* sent without any tool schema, and whatever it returns (a tool_use request
\* included) no capability is executed after it, so every execution lies
\* between the first call and the first attempt of the second call.
C3_SingleRoundTrip ==
    /\ Cardinality(CallsAt(1)) <= 1
    /\ log /= <<>> => IsCall(log[1], 1)
    /\ \A i \in CallsAt(2) :
          /\ log[i].params.tools = None
          /\ \A j \in ExecsAt : j < i
    /\ \A j \in ExecsAt : \E i \in CallsAt(1) : i < j
    /\ CallsAt(2) /= {} => pc /= "tools"

\* Witness of C3: the second call answered with a tool_use request on both
\* attempts and the query ended without a further execution.
C3_Witness ==
    /\ Cardinality(CallsAt(2)) = 2
    /\ \A i \in CallsAt(2) :
          /\ log[i].outcome.kind = "return"
          /\ log[i].outcome.value.stop_reason = "tool_use"
    /\ pc = "returned"
    /\ Cardinality(ExecsAt) = 2

\* The outcomes of the attempts of the final call, in order.
RECURSIVE Call2From(_)
Call2From(i) ==
    IF i > Len(log) THEN <<>>
    ELSE IF IsCall(log[i], 2) THEN <<log[i].outcome>> \o Call2From(i + 1)
    ELSE Call2From(i + 1)

Call2Outcomes == Call2From(1)

\* C4: if the final call returns no content or a first block without text it
\* is retried exactly once more; if the second attempt is malformed too the
\* fixed fallback string is returned and nothing is raised; if either attempt
\* is well-formed its text is returned.
C4_RetryMalformed ==
    LET c2 == Call2Outcomes
    IN  /\ Len(c2) <= 2
        /\ (Len(c2) >= 1 /\ Malformed(c2[1])) =>
              /\ Len(c2) = 1 => (pc = "call2" /\ attempt = 1)
              /\ Finished => Len(c2) = 2
        /\ (Len(c2) = 2 /\ Malformed(c2[1]) /\ Malformed(c2[2])) =>
              /\ pc \in {"returned", "idle"}
              /\ result = Some([kind |-> "return", value |-> FALLBACK])
        /\ \A k \in 1..Len(c2) :
              WellFormed(c2[k]) =>
                  /\ k = Len(c2)
                  /\ pc \in {"returned", "idle"}
                  /\ result = Some([kind |-> "return",
                                    value |-> c2[k].value.content[1].text])

\* Witness of C4: an empty response, then a response without text, ended in
\* the fallback string handed back by query.
C4_Witness ==
    /\ Len(Call2Outcomes) = 2
    /\ Malformed(Call2Outcomes[1])
    /\ Len(Call2Outcomes[1].value.content) = 0
    /\ Malformed(Call2Outcomes[2])
    /\ Len(Call2Outcomes[2].value.content) = 1
    /\ answered /= None
    /\ answered[1].kind = "return"
    /\ answered[1].response = FALLBACK

\* C5 as claimed: once the capability executions are done, generate_response
\* returns a string for every sequence of outcomes of the final call, raised
\* exceptions included.
C5_NeverHardFailure ==
    (Call2Outcomes /= <<>> /\ Finished) => result[1].kind = "return"

\* C5 amended: once the capability executions are done, generate_response
\* returns a string (the model text or the fallback) for every sequence of
\* outcomes whose last attempt did not raise; when the last permitted attempt
\* raises, that exception is propagated.
C5_FinalPassOutcome ==
    LET c2 == Call2Outcomes
        final == c2[Len(c2)]
    IN  (c2 /= <<>> /\ Finished) =>
            IF final.kind = "raise"
            THEN /\ Len(c2) = max_retries + 1
                 /\ result = Some(final)
                 /\ pc \in {"raised", "idle"}
            ELSE /\ result[1].kind = "return"
                 /\ pc \in {"returned", "idle"}
                 /\ \/ result[1].value = FALLBACK
                    \/ WellFormed(final) /\ result[1].value = final.value.content[1].text

\* Witness of C5: a malformed response followed by a raised exception ended
\* the query with that exception.
C5_Witness ==
    /\ Len(Call2Outcomes) = 2
    /\ Malformed(Call2Outcomes[1])
    /\ Call2Outcomes[2].kind = "raise"
    /\ pc = "raised"

\* C6: a failure of the first model call (it raises, or its response has no
\* usable first text block on the direct-answer path) and an exception raised
\* while a requested capability executes are propagated to the caller: they
\* are not retried, not replaced by the fallback string, and no second model
\* call follows them.
C6_FailuresPropagate ==
    /\ (log /= <<>> /\ log[1].outcome.kind = "raise") =>
          /\ Len(log) = 1
          /\ pc \in {"raised", "idle"}
          /\ result = Some(log[1].outcome)
    /\ (DirectPath /\ (Len(response[1].content) = 0
                       \/ ~HasText(response[1].content[1]))) =>
          /\ Len(log) = 1
          /\ pc \in {"raised", "idle"}
          /\ result /= None
          /\ result[1].kind = "raise"
    /\ \A j \in ExecsAt :
          log[j].outcome.kind = "raise" =>
              /\ j = Len(log)
              /\ pc \in {"raised", "idle"}
              /\ result = Some(log[j].outcome)
    /\ (pc = "idle" /\ result /= None /\ result[1].kind = "raise") =>
          answered = result

\* Witness of C6: the second of two requested capabilities raised after the
\* first had run, and query raised.
C6_Witness ==
    /\ Cardinality(ExecsAt) = 2
    /\ log[Len(log)].outcome.kind = "raise"
    /\ CallsAt(2) = {}
    /\ pc = "idle"
    /\ answered /= None
    /\ answered[1].kind = "raise"

\* C7: VectorStore.search never propagates a backend exception: when the
\* backend raises, search returns a result with no documents and the error
\* marker set; when the backend returns, the error marker is unset; so an
\* empty result with an error differs from an empty result without one.
C7_SearchCatchesBackend ==
    store_call /= None =>
        LET backend == store_call[1].backend
        IN  /\ store_result /= None
            /\ tool_output /= None
            /\ tool_output[1].kind = "return"
            /\ backend.kind = "raise" =>
                  /\ store_result[1].documents = <<>>
                  /\ store_result[1].metadata = <<>>
                  /\ store_result[1].error = Some("Search error: " \o backend.msg)
            /\ backend.kind = "ok" => store_result[1].error = None
            /\ (is_empty(store_result[1]) /\ store_result[1].error = None) =>
                  backend.kind = "ok"

\* Witness of C7: the backend raised with an empty message and search
\* returned an empty result that carries an error.
C7_Witness ==
    /\ store_call /= None
    /\ store_call[1].backend = [kind |-> "raise", msg |-> ""]
    /\ store_result /= None
    /\ is_empty(store_result[1])
    /\ store_result[1].error /= None

\* The predicates of the criteria a search call supplies (a criterion is
\* supplied when it is neither None nor empty), in the order topic, paper
\* type, year.
SuppliedPredicates(args) ==
    (IF args.topic \notin {None, Some("")}
     THEN <<[topic |-> args.topic[1]]>> ELSE <<>>)
    \o (IF args.paper_type \notin {None, Some("")}
        THEN <<[paper_type |-> args.paper_type[1]]>> ELSE <<>>)
    \o (IF args.year_range /= None
        THEN <<[year |-> [gte |-> args.year_range[1][1],
                          lte |-> args.year_range[1][2]]]>>
        ELSE <<>>)

\* C8: for every combination of supplied criteria the filter builder returns
\* no predicate when none is supplied, the predicate itself (not wrapped in a
\* conjunction) when exactly one is supplied, and a conjunction of exactly
\* the supplied predicates in the order topic, paper type, year otherwise.
C8_FilterShape ==
    store_call /= None =>
        LET where == store_call[1].request.where
            supplied == SuppliedPredicates(store_call[1].args)
        IN  /\ Len(supplied) = 0 => where = None
            /\ Len(supplied) = 1 =>
                  /\ where = Some(supplied[1])
                  /\ "and" \notin DOMAIN where[1]
            /\ Len(supplied) >= 2 =>
                  /\ where /= None
                  /\ DOMAIN where[1] = {"and"}
                  /\ where[1].and = supplied

\* Witness of C8: a search with all three criteria got the conjunction of the
\* three predicates.
C8_Witness ==
    /\ store_call /= None
    /\ store_call[1].request.where =
          Some([and |-> <<[topic |-> "Cardiology"], [paper_type |-> "Review"],
                          [year |-> [gte |-> 2022, lte |-> 2100]]>>])

\* C9: the search capability passes the facade no year range when neither
\* min_year nor max_year is given, and otherwise a complete range in which a
\* missing lower bound is 1900 and a missing upper bound is 2100; min_year =
\* 2022 without max_year yields (2022, 2100).
C9_YearRange ==
    store_call /= None =>
        LET kwargs == tool_call[1].kwargs
            range == store_call[1].args.year_range
        IN  /\ (kwargs.min_year = None /\ kwargs.max_year = None) => range = None
            /\ (kwargs.min_year /= None \/ kwargs.max_year /= None) =>
                  /\ range /= None
                  /\ Len(range[1]) = 2
                  /\ range[1][1] \in Int
                  /\ range[1][2] \in Int
                  /\ range[1][1] = IF kwargs.min_year = None THEN 1900
                                   ELSE kwargs.min_year[1]
                  /\ range[1][2] = IF kwargs.max_year = None THEN 2100
                                   ELSE kwargs.max_year[1]
            /\ (kwargs.min_year = Some(2022) /\ kwargs.max_year = None) =>
                  range = Some(<<2022, 2100>>)

\* Witness of C9: min_year = 2022 without max_year reached the facade as the
\* range (2022, 2100).
C9_Witness ==
    /\ store_call /= None
    /\ tool_call[1].kwargs.min_year = Some(2022)
    /\ tool_call[1].kwargs.max_year = None
    /\ store_call[1].args.year_range = Some(<<2022, 2100>>)

\* C10: when the facade returns a result that carries an error marker, the
\* search capability returns exactly that error text and formats no evidence
\* (the recorded sources stay as they were).
C10_ErrorVerbatim ==
    [][(tool_output = None /\ store_result' /= None
        /\ store_result'[1].error /= None) =>
            /\ tool_output' = Some([kind |-> "return",
                                    value |-> store_result'[1].error[1]])
            /\ last_sources' = last_sources]_vars

\* Witness of C10: the error text came back unchanged from an instance that
\* still holds the sources of an earlier invocation.
C10_Witness ==
    /\ store_result /= None
    /\ store_result[1].error = Some("Search error: index unavailable")
    /\ tool_output = Some([kind |-> "return",
                           value |-> "Search error: index unavailable"])
    /\ last_sources /= <<>>

\* The search call ended without an error and without a match.
NoMatches ==
    /\ store_result /= None
    /\ store_result[1].error = None
    /\ is_empty(store_result[1])

\* The predicates of the filter a search applied.
AppliedPredicates(where) ==
    IF where = None THEN <<>>
    ELSE IF "and" \in DOMAIN where[1] THEN where[1].and
    ELSE <<where[1]>>

\* How the no-results message names one applied predicate.
Echo(predicate) ==
    IF "topic" \in DOMAIN predicate THEN " in topic '" \o predicate.topic \o "'"
    ELSE IF "paper_type" \in DOMAIN predicate
    THEN " of type '" \o predicate.paper_type \o "'"
    ELSE " from years " \o ToString(predicate.year.gte) \o "-"
         \o ToString(predicate.year.lte)

\* C11: when the facade returns an empty result without an error, the search
\* capability returns a no-results message that names every filter that was
\* applied to the search (topic value, paper-type value, year range bounds)
\* and names no filter that was not applied.
C11_NoResultsEchoesFilters ==
    NoMatches =>
        LET applied == AppliedPredicates(store_call[1].request.where)
        IN  tool_output =
                Some([kind |-> "return",
                      value |-> "No relevant medical literature found"
                                \o Join([i \in 1..Len(applied) |-> Echo(applied[i])], "")
                                \o "."])

\* Witness of C11: a search filtered by topic and year found nothing and the
\* message names both filters and no paper type.
C11_Witness ==
    /\ NoMatches
    /\ tool_call[1].kwargs.paper_type = Some("")
    /\ tool_output =
          Some([kind |-> "return",
                value |-> "No relevant medical literature found in topic 'Cardiology' from years 2022-2100."])

\* The search call ended with evidence.
Success ==
    /\ store_result /= None
    /\ store_result[1].error = None
    /\ ~is_empty(store_result[1])

\* Positions in the result list at which a document title occurs first.
FirstOccurrences(metadata) ==
    {i \in 1..Len(metadata) :
        \A j \in 1..(i - 1) : metadata[j].paper_title /= metadata[i].paper_title}

\* C12: after a successful search invocation the recorded citation sources
\* hold exactly one entry per distinct document title among the returned
\* evidence items, ordered by the first occurrence of each title in the
\* result list; two items with the same title yield one source.
C12_SourcesDeduplicated ==
    Success =>
        LET metadata == store_result[1].metadata
            first == FirstOccurrences(metadata)
        IN  /\ Len(last_sources) = Cardinality(first)
            /\ \A i \in first :
                  LET rank == Cardinality({j \in first : j <= i})
                      title == metadata[i].paper_title[1]
                  IN  /\ last_sources[rank].text =
                            title \o " - "
                            \o (IF metadata[i].year /= None
                                THEN ToString(metadata[i].year[1]) ELSE "Unknown Year")
                            \o " - "
                            \o (IF metadata[i].journal /= None
                                THEN metadata[i].journal[1] ELSE "Unknown Journal")
                      /\ last_sources[rank].url = get_paper_url(title)

\* Witness of C12: two evidence items of one document yielded one source.
C12_Witness ==
    /\ Success
    /\ Len(store_result[1].documents) = 2
    /\ store_result[1].metadata[1].paper_title = store_result[1].metadata[2].paper_title
    /\ Len(last_sources) = 1
    /\ last_sources[1].text = "P1 - 2021 - BMJ"

\* C13: each invocation of the search capability overwrites the sources of
\* any prior invocation on the instance: after an invocation that ended in
\* evidence, in no matches or in an error, the recorded sources are those of
\* that invocation only.
C13_SourcesOverwritten ==
    (tool_output /= None /\ store_call /= None) =>
        last_sources = IF Success THEN format_results(store_result[1]).last_sources
                       ELSE <<>>

\* The sentences of the chunk appended k-th, from the span recorded for it.
SpanSentences(c, k) ==
    SubSeq(c.sentences, c.spans[k].start + 1, c.spans[k].start + c.spans[k].taken)

\* C14: for every sentence list, chunk size and overlap size the chunks cover
\* the sentences in order without a gap: the first chunk starts at the first
\* sentence, each chunk starts no later than the sentence following the end
\* of the previous chunk, the loop index never passes an uncovered sentence,
\* and when chunk_text returns every sentence lies in at least one chunk.
C14_NoSentenceDropped ==
    chunker /= None =>
        LET c == chunker[1]
            n == Len(c.sentences)
            end(k) == c.spans[k].start + c.spans[k].taken
        IN  /\ \A k \in 1..Len(c.spans) :
                  c.spans[k].start <= (IF k = 1 THEN 0 ELSE end(k - 1))
            /\ c.i <= (IF c.spans = <<>> THEN 0 ELSE end(Len(c.spans)))
            /\ c.returned /= None =>
                  \A j \in 0..(n - 1) :
                      \E k \in 1..Len(c.spans) :
                          /\ c.spans[k].start <= j
                          /\ j < end(k)
                          /\ c.returned[1][k] = Join(SpanSentences(c, k), " ")

\* Witness of C14: a text of three or more sentences was returned in several
\* chunks, one of which starts inside the previous one.
C14_Witness ==
    /\ chunker /= None
    /\ chunker[1].returned /= None
    /\ Len(chunker[1].sentences) >= 3
    /\ \E k \in 2..Len(chunker[1].spans) :
          /\ chunker[1].spans[k].start
                < chunker[1].spans[k - 1].start + chunker[1].spans[k - 1].taken
          /\ chunker[1].spans[k].start > chunker[1].spans[k - 1].start

\* C15: every chunk consists of one or more whole consecutive sentences
\* joined by a space, so it is never empty, and it is no longer than
\* chunk_size unless it is a single sentence that alone exceeds chunk_size.
C15_WholeSentencesWithinSize ==
    chunker /= None =>
        LET c == chunker[1]
        IN  /\ Len(c.chunks) = Len(c.spans)
            /\ \A k \in 1..Len(c.chunks) :
                  /\ c.spans[k].taken >= 1
                  /\ c.spans[k].start + c.spans[k].taken <= Len(c.sentences)
                  /\ c.chunks[k] = Join(SpanSentences(c, k), " ")
                  /\ c.chunks[k] /= ""
                  /\ \/ Len(c.chunks[k]) <= c.chunk_size
                     \/ /\ c.spans[k].taken = 1
                        /\ Len(c.sentences[c.spans[k].start + 1]) > c.chunk_size

\* Witness of C15: one text gave a chunk of several sentences and a chunk
\* that is a single sentence longer than chunk_size.
C15_Witness ==
    /\ chunker /= None
    /\ chunker[1].returned /= None
    /\ \E k \in 1..Len(chunker[1].chunks) :
          /\ chunker[1].spans[k].taken >= 2
          /\ Len(chunker[1].chunks[k]) <= chunker[1].chunk_size
    /\ \E k \in 1..Len(chunker[1].chunks) :
          /\ chunker[1].spans[k].taken = 1
          /\ Len(chunker[1].chunks[k]) > chunker[1].chunk_size

\* C16: the chunker terminates for every input and configuration, also with
\* chunk_overlap >= chunk_size: every iteration of the loop strictly increases
\* the start index, which never passes the number of sentences, and appends at
\* most one chunk, so there are at most as many chunks as sentences.
C16_StartIndexIncreases ==
    [][(chunker /= None /\ chunker' /= None /\ chunker' /= chunker) =>
          /\ chunker'[1].i <= Len(chunker[1].sentences)
          /\ Len(chunker'[1].chunks) <= chunker'[1].i
          /\ chunker'[1].returned = None =>
                /\ chunker'[1].i > chunker[1].i
                /\ Len(chunker'[1].chunks) <= Len(chunker[1].chunks) + 1]_vars

\* Witness of C16: with chunk_overlap >= chunk_size a text of three sentences
\* was returned in three chunks, the first of them holding two sentences.
C16_Witness ==
    /\ chunker /= None
    /\ chunker[1].returned /= None
    /\ chunker[1].chunk_size > 0
    /\ chunker[1].chunk_overlap >= chunker[1].chunk_size
    /\ Len(chunker[1].sentences) = 3
    /\ Len(chunker[1].chunks) = 3
    /\ chunker[1].spans[1].taken = 2

\* The last call of process_medical_paper returned a record and chunks.
ParsedOk ==
    /\ parsed /= None
    /\ parsed[1].returned
    /\ parsed[1].result /= None

\* A sequence without its immediate repetitions.
RECURSIVE Runs(_)
Runs(seq) ==
    IF Len(seq) <= 1 THEN seq
    ELSE IF seq[1] = seq[2] THEN Runs(Tail(seq))
    ELSE <<seq[1]>> \o Runs(Tail(seq))

\* C17: for every successfully parsed document the chunk indices are
\* 0, 1, 2, ... in emission order; a non-empty abstract gives exactly one
\* chunk whatever its length, which is the first chunk, has index 0, label
\* "Abstract" and holds the whole abstract; the chunks of the body sections
\* follow it, section by section in document order.
C17_ChunkIndicesAndAbstractFirst ==
    ParsedOk =>
        LET file == parsed[1].file
            paper == parsed[1].result[1].paper
            chunks == parsed[1].result[1].chunks
            has_abstract == file.abstract /= None /\ Join(file.abstract[1], " ") /= ""
            first_body == IF has_abstract THEN 2 ELSE 1
            sections == extract_body_sections(file)
        IN  /\ \A k \in 1..Len(chunks) : chunks[k].chunk_index = k - 1
            /\ has_abstract =>
                  /\ Len(chunks) >= 1
                  /\ chunks[1].section_title = Some("Abstract")
                  /\ chunks[1].chunk_index = 0
                  /\ chunks[1].content =
                        "Paper: " \o paper.title \o " | Section: Abstract\n"
                        \o Join(file.abstract[1], " ")
            /\ \A k \in first_body..Len(chunks) :
                  chunks[k].section_title /= Some("Abstract")
            /\ Runs([k \in 1..(Len(chunks) - first_body + 1) |->
                        chunks[k + first_body - 1].section_title[1]])
                  = [k \in 1..Len(sections) |-> sections[k].title]

\* Witness of C17: a document whose abstract is longer than chunk_size and
\* whose body has two sections, one of them cut into several chunks.
C17_Witness ==
    /\ ParsedOk
    /\ parsed[1].file.abstract /= None
    /\ Len(Join(parsed[1].file.abstract[1], " ")) > processor.chunk_size
    /\ LET chunks == parsed[1].result[1].chunks
       IN  /\ Len(chunks) >= 4
           /\ chunks[1].section_title = Some("Abstract")
           /\ chunks[2].section_title = chunks[3].section_title
           /\ chunks[Len(chunks)].section_title /= chunks[2].section_title
           /\ chunks[Len(chunks)].chunk_index = Len(chunks) - 1

\* C18: a document whose body contains no section is reported as skipped
\* (process_medical_paper returns None), whatever the shape of the body, also
\* when the body has child elements none of which is a section.
C18_NoSectionSkipped ==
    (/\ parsed /= None
     /\ parsed[1].returned
     /\ \/ parsed[1].file.body = None
        \/ all_secs(parsed[1].file.body[1]) = <<>>)
    => parsed[1].result = None

\* C19: during folder ingestion a file whose parsing or extraction fails adds
\* no catalog record and no chunk, and the batch goes on: the iterations of
\* the loop follow the files of the folder one by one, and when the run
\* returns every file of the folder has had its iteration.
C19_FailedFileAddsNothing ==
    (ingest /= None /\ ingest[1].folder /= None) =>
        LET run == ingest[1]
            files == run.folder[1]
        IN  /\ Len(run.steps) = run.i
            /\ run.i <= Len(files)
            /\ run.status = "returned" => Len(run.steps) = Len(files)
            /\ \A k \in 1..Len(run.steps) :
                  /\ run.steps[k].name = files[k].name
                  /\ files[k].fault /= "none" =>
                        /\ run.steps[k].outcome = "skipped"
                        /\ run.steps[k].catalog_added = {}
                        /\ run.steps[k].content_added = {}

\* Witness of C19: a run returned after a file that failed to parse was
\* followed by a file that was added with its chunks.
C19_Witness ==
    /\ ingest /= None
    /\ ingest[1].status = "returned"
    /\ ingest[1].folder /= None
    /\ \E k \in 2..Len(ingest[1].steps) :
          /\ ingest[1].folder[1][k - 1].fault = "parse_error"
          /\ ingest[1].steps[k - 1].outcome = "skipped"
          /\ ingest[1].steps[k].outcome = "added"
          /\ ingest[1].steps[k].content_added /= {}
    /\ get_paper_count(paper_catalog) = 1

SeveralRequests ==
    /\ response /= None
    /\ response[1].stop_reason = "tool_use"
    /\ Cardinality(ToolUses(response[1].content)) >= 2

\* The tool_use blocks of the first response, in the order of the blocks.
Requests ==
    LET content == response[1].content
    IN  [n \in 1..Cardinality(ToolUses(content)) |->
            content[nth_tool_use(content, 1, n)]]

\* The tool executions of the query, in the order they happened.
Executions ==
    LET RECURSIVE from(_)
        from(i) == IF i > Len(log) THEN <<>>
                   ELSE IF IsExec(log[i]) THEN <<log[i]>> \o from(i + 1)
                   ELSE from(i + 1)
    IN  from(1)

\* The executions execs follow the requests reqs one by one in block order,
\* and every second model call is sent the original messages, the assistant
\* message and one user message with one result per request, in the same
\* order, each with the invocation id of its request.
RequestsInOrder(reqs, execs) ==
    /\ Len(execs) <= Len(reqs)
    /\ \A n \in 1..Len(execs) :
          /\ execs[n].id = reqs[n].id
          /\ execs[n].name = reqs[n].name
    /\ \A i \in CallsAt(2) :
          LET original == log[1].params.messages
              sent == log[i].params.messages
          IN  /\ Len(sent) = Len(original) + 2
              /\ SubSeq(sent, 1, Len(original)) = original
              /\ sent[Len(original) + 1] =
                    [role |-> "assistant", content |-> response[1].content]
              /\ sent[Len(original) + 2] =
                    [role |-> "user",
                     content |-> [n \in 1..Len(reqs) |->
                                     [type |-> "tool_result",
                                      tool_use_id |-> reqs[n].id,
                                      content |-> execs[n].outcome.value]]]

\* C22 as stated: when the first response requests several capability
\* invocations, each request is executed exactly once, in the order of the
\* content blocks, and the one user message appended before the second model
\* call holds one result per request, in order, with its invocation id; the
\* message list grows by exactly 2.
C22_EachRequestExecutedOnce ==
    SeveralRequests =>
        LET reqs == Requests
            execs == Executions
        IN  /\ RequestsInOrder(reqs, execs)
            /\ pc /= "tools" => Len(execs) = Len(reqs)

\* C22, amended: the requests are executed one by one in the order of the
\* content blocks, each at most once.  When no execution raises, each is
\* executed exactly once and the one user message appended before the second
\* model call holds one result per request, in order, with its invocation
\* id, the message list growing by exactly 2.  When an execution raises, it
\* is the last one: the requests after it are not executed and no second
\* model call is made.
C22_RequestsExecutedInOrder ==
    SeveralRequests =>
        LET reqs == Requests
            execs == Executions
        IN  /\ RequestsInOrder(reqs, execs)
            /\ (pc /= "tools" /\ \A n \in 1..Len(execs) :
                                     execs[n].outcome.kind = "return")
                  => Len(execs) = Len(reqs)
            /\ \A n \in 1..Len(execs) :
                  execs[n].outcome.kind = "raise" =>
                      /\ n = Len(execs)
                      /\ CallsAt(2) = {}
                      /\ pc \in {"raised", "idle"}

\* Witness of C22: two requests were executed and the second model call was
\* sent both results, the first of them for toolu_1.
C22_Witness ==
    /\ SeveralRequests
    /\ Len(Executions) = 2
    /\ CallsAt(2) /= {}
    /\ Executions[1].outcome.value /= Executions[2].outcome.value
    /\ LET sent == log[Len(log)].params.messages
       IN  /\ Len(sent) = 3
           /\ Len(sent[3].content) = 2
           /\ sent[3].content[1].tool_use_id = "toolu_1"
           /\ sent[3].content[2].tool_use_id = "toolu_2"

\* The outcome of a final call failed: it raised or it was malformed.
Failed(outcome) == outcome.kind = "raise" \/ Malformed(outcome)

\* C29: the retry budget of the final pass is shared by all failure kinds.
\* Whatever the mix of empty content, missing text field and raised
\* exception, the second model call is attempted at most twice and a query
\* makes at most three model calls; a failed first attempt of any kind is
\* followed by exactly one more attempt, after which the query ends; a
\* retry sends the same parameters and executes no capability again.
C29_SharedRetryBudget ==
    [][/\ Cardinality(CallsAt(2))' <= max_retries + 1
       /\ Cardinality(CallsAt(1))' + Cardinality(CallsAt(2))' <= 3
       /\ (Len(log') = Len(log) + 1 /\ IsCall(log'[Len(log')], 2)) =>
             /\ ExecsAt' = ExecsAt
             /\ tool_results' = tool_results
             /\ toolVars' = toolVars
             /\ \A i \in CallsAt(2) :
                   /\ Failed(log[i].outcome)
                   /\ log'[Len(log')].params = log[i].params
             /\ (CallsAt(2) /= {} \/ ~Failed(log'[Len(log')].outcome))
                   => pc' \in {"returned", "raised"}
             /\ (CallsAt(2) = {} /\ Failed(log'[Len(log')].outcome))
                   => pc' = "call2"]_vars

\* Witness of C29: after two capability executions the final call raised,
\* was attempted again and came back empty, which ended the query after
\* three model calls.
C29_Witness ==
    /\ Cardinality(ExecsAt) = 2
    /\ Len(Call2Outcomes) = 2
    /\ Call2Outcomes[1].kind = "raise"
    /\ Malformed(Call2Outcomes[2])
    /\ Len(Call2Outcomes[2].value.content) = 0
    /\ Cardinality(CallsAt(1)) + Cardinality(CallsAt(2)) = 3
    /\ Finished

\* C24: each source in the list returned by a successful query was recorded
\* by a search executed during that same query; in particular a query in
\* which no search was executed returns an empty source list, also after an
\* earlier query that raised once its search had run.
C24_SourcesOfThisQuery ==
    (answered /= None /\ answered[1].kind = "return" /\ ExecsAt = {})
        => answered[1].sources = <<>>

\* The document titles of the stored chunks.
Titles == {c.meta.paper_title[1] : c \in StoredChunks}

\* The backend results that hold a chunk of the document titled t.
ResultsWith(t) ==
    {from_chroma(c) : c \in {r \in ChromaResults :
        /\ r.metadatas /= None
        /\ \E i \in 1..Len(r.metadatas[1]) :
              r.metadatas[1][i].paper_title = Some(t)}}

\* The tool-result texts that carry evidence of the document titled t, and
\* the sources that cite it.
EvidenceOf(t) == {format_results(r).text : r \in ResultsWith(t)}

SourcesOf(t) ==
    {src \in UNION {{format_results(r).last_sources[k] :
                        k \in 1..Len(format_results(r).last_sources)} :
                    r \in ResultsWith(t)} :
        \E c \in StoredChunks :
            /\ c.meta.paper_title = Some(t)
            /\ src = format_results(from_chroma(
                        [documents |-> Some(<<c.doc>>),
                         metadatas |-> Some(<<c.meta>>)])).last_sources[1]}

\* The titles whose evidence was passed to the model in a tool result of
\* this query.
TitlesPassed ==
    {t \in Titles :
        /\ CallsAt(2) /= {}
        /\ \E i \in ExecsAt : /\ log[i].outcome.kind = "return"
                              /\ log[i].outcome.value \in EvidenceOf(t)}

\* C25: when the model requests several searches in one query, the source
\* list returned with the answer holds a source for every document title
\* whose evidence was passed to the model in any tool result of that query.
C25_SourcesCoverAllSearches ==
    (answered /= None /\ answered[1].kind = "return"
     /\ Cardinality(ExecsAt) >= 2) =>
        \A t \in TitlesPassed :
            \E k \in 1..Len(answered[1].sources) :
                answered[1].sources[k] \in SourcesOf(t)

\* What the metadata files of a directory map: in each file the entries with
\* a title and a topic, a later entry of a title replacing an earlier one.
MappingOf(metadata_dir) ==
    IF metadata_dir = "data"
    THEN [t \in {"P1"} |-> "Cardiology"]
    ELSE [t \in {"P1", "f1.xml"} |-> IF t = "P1" THEN "Neurology" ELSE "Cardiology"]

\* C23: the topic mapping is built at most once per parser instance: the
\* metadata files are read on the first parse that reaches topic resolution
\* and every later parse reuses that mapping unchanged, also when it is
\* called with another metadata directory; a title absent from the mapping
\* yields a null topic and not an error.
C23_TopicMappingBuiltOnce ==
    [][/\ processor.topic_mapping /= None
             => processor'.topic_mapping = processor.topic_mapping
       /\ (~parsed[1].returned /\ parsed'[1].returned) =>
             LET reached == parsed'[1].result /= None
                 paper == parsed'[1].result[1].paper
                 mapping == processor'.topic_mapping[1]
             IN  /\ ~reached => processor'.topic_mapping = processor.topic_mapping
                 /\ (reached /\ processor.topic_mapping = None)
                       => processor'.topic_mapping =
                             Some(MappingOf(parsed[1].metadata_dir))
                 /\ reached =>
                       /\ processor'.topic_mapping /= None
                       /\ paper.topic = IF paper.title \in DOMAIN mapping
                                        THEN Some(mapping[paper.title])
                                        ELSE None]_vars

\* Witness of C23: a parse called with the directory archive resolved the
\* topic of P1 in the mapping an earlier parse had built from the directory
\* data.
C23_Witness ==
    /\ pc = "parse"
    /\ parsed[1].returned
    /\ parsed[1].metadata_dir = "archive"
    /\ parsed[1].result /= None
    /\ parsed[1].result[1].paper.title = "P1"
    /\ parsed[1].result[1].paper.topic = Some("Cardiology")
    /\ processor.topic_mapping = Some(MappingOf("data"))

\* Witness of C23, absent title: a parsed document whose title is not in the
\* mapping has no topic.
C23_WitnessAbsent ==
    /\ pc = "parse"
    /\ parsed[1].returned
    /\ parsed[1].result /= None
    /\ parsed[1].result[1].paper.title \notin DOMAIN processor.topic_mapping[1]
    /\ parsed[1].result[1].paper.topic = None

\* C30: every chunk emitted after the first holds at least one sentence that
\* lies in no earlier chunk: it ends after the end of the preceding chunk,
\* also with a positive overlap size and at the end of the text.
C30_EveryChunkAddsASentence ==
    chunker /= None =>
        LET c == chunker[1]
            end(k) == c.spans[k].start + c.spans[k].taken
        IN  \A k \in 2..Len(c.spans) : end(k) > end(k - 1)

\* The predicates of a filter built by build_filter, and the metadata fields
\* they refer to.
Criteria(where) ==
    IF "and" \in DOMAIN where
    THEN {where.and[k] : k \in 1..Len(where.and)}
    ELSE {where}

FilterFields(where) == UNION {DOMAIN p : p \in Criteria(where)}

\* The chunks in the content collection of the document titled t.
ChunksOf(t) == {r \in paper_content : r.metadata.paper_title = t}

\* C26: every criterion the facade turns into a filter predicate (topic,
\* paper_type, year) refers to a metadata field that ingestion writes on the
\* chunks: for an ingested document with a topic, a year and classification
\* label T, each of its chunks carries the fields of the filter built from
\* them, and the field of the filter paper_type = T with the value T.
C26_FilterFieldsAreIngested ==
    \A c \in paper_catalog :
        {"topic", "paper_type", "year"} \subseteq DOMAIN c.metadata =>
            \A r \in ChunksOf(c.id) :
                /\ FilterFields(build_filter(Some(c.metadata.topic),
                                             Some(c.metadata.paper_type),
                                             Some(<<c.metadata.year,
                                                    c.metadata.year>>))[1])
                      \subseteq DOMAIN r.metadata
                /\ \A p \in Criteria(build_filter(None,
                                         Some(c.metadata.paper_type), None)[1]) :
                      \A f \in DOMAIN p :
                          f \in DOMAIN r.metadata /\ r.metadata[f] = p[f]

\* C27: the chunk identity key is injective on (document title, position
\* index): two chunks handed to the content collection with different
\* titles or different indices never get the same id, also when the titles
\* differ only in spaces, slashes or underscores.
C27_ChunkIdInjective ==
    \A a, b \in ingest[1].handed :
        (a.paper_title /= b.paper_title \/ a.chunk_index /= b.chunk_index)
            => a.id /= b.id

\* The ids of the chunks that parsing the k-th file of the folder yields.
ChunkIdsOfFile(k) ==
    LET out == process_medical_paper(ingest[1].folder[1][k],
                                     ingest[1].metadata_dir, processor)
    IN  IF out.result = None \/ out.result[1].chunks = <<>> THEN {}
        ELSE Ids(content_records(out.result[1].chunks))

\* C28: ingestion of one document is atomic with respect to the two
\* collections.  After add_papers_from_folder returns, every title it put in
\* the catalog has all of its chunks in the content collection, also when
\* adding the chunks failed after the catalog record was added; and a file
\* skipped as already existing has its title's chunks in the content
\* collection.
C28_CatalogImpliesChunks ==
    (ingest /= None /\ ingest[1].status = "returned" /\ ingest[1].folder /= None) =>
        \A k \in 1..Len(ingest[1].steps) :
            LET step == ingest[1].steps[k]
            IN  /\ step.catalog_added /= {}
                      => ChunkIdsOfFile(k) \subseteq Ids(paper_content)
                /\ (step.outcome = "exists" /\ ChunkIdsOfFile(k) /= {})
                      => ChunksOf(step.title[1]) /= {}

\* C21: concurrent queries are independent: for every interleaving of two
\* queries on one system, the source list a query returns is the one its own
\* search invocations recorded, never sources recorded by the other query
\* (and never emptied by the other query).
C21_ConcurrentQueriesIndependent ==
    queries /= None =>
        \A q \in QueryIds :
            LET me == queries[1][q]
            IN  (me.answered /= None /\ me.answered[1].kind = "return")
                    => me.answered[1].sources = get_last_sources(me.own)

====
